---- MODULE Spec2Model ----
(***************************************************************************)
(* Model of the noise-reduction core (src/src/core/noise_reducer.py,       *)
(* src/src/core/evaluator.py).                                             *)
(*                                                                         *)
(* Number representation.  A sample is an integer number of thousandths    *)
(* (0.001) of full scale, so a sum of squared samples (an "energy") is an  *)
(* integer number of millionths (1e-6).  Decibel values are never computed *)
(* as numbers: a comparison "10*log10(p/q) < T" is decided on p and q.     *)
(***************************************************************************)
EXTENDS Integers, Sequences, FiniteSets, TLC

\* ---------------------------------------------------------------- bounds
MaxLen == 4                     \* every buffer of at most MaxLen samples is an input
LongLen == 28                   \* length of the long input buffers

Amp == {0, 5, 100}              \* sample values of the short input buffers
Rates == {-100, 0, 100, 200, 44100}   \* sample rates given to the components
ThresholdsDb == {-45, -20}      \* threshold_db arguments of detect_silence

\* ------------------------------------------------------------- arithmetic
Abs(v) == IF v < 0 THEN -v ELSE v
Min(a, b) == IF a < b THEN a ELSE b
Max(a, b) == IF a > b THEN a ELSE b
\* Python int(): truncation toward zero of a / b, b > 0
Trunc(a, b) == IF a >= 0 THEN a \div b ELSE -((-a) \div b)

\* the same sequence, as an explicit tuple
Tuple(s) == s \o <<>>

RECURSIVE SeqSum(_)
SeqSum(s) == IF s = <<>> THEN 0 ELSE Head(s) + SeqSum(Tail(s))

RECURSIVE SeqMax(_)
SeqMax(s) == IF Len(s) = 1 THEN s[1] ELSE Max(Head(s), SeqMax(Tail(s)))

Squares(s) == Tuple([i \in 1..Len(s) |-> s[i] * s[i]])
AbsSeq(s) == Tuple([i \in 1..Len(s) |-> Abs(s[i])])
Const(n, v) == Tuple([i \in 1..n |-> v])
CountTrue(s) == Cardinality({i \in 1..Len(s) : s[i]})

\* ------------------------------------------------------- silence framing
\* int(0.02 * sample_rate) and int(0.01 * sample_rate)
FrameLength(sr) == Trunc(2 * sr, 100)
HopLength(sr) == Trunc(sr, 100)

\* librosa.util.frame raises when the buffer is shorter than one frame or the
\* hop is below one sample
frame_raises(audio_data, frame_length, hop_length) ==
    Len(audio_data) < frame_length \/ hop_length < 1

\* the framing with the buffer padded with zeros to a whole number of hops
frame_padded(audio_data, frame_length, hop_length) ==
    LET n == 1 + (Len(audio_data) - frame_length + hop_length - 1) \div hop_length
    IN  Tuple([k1 \in 1..n |->
            Tuple([j \in 1..frame_length |->
                IF (k1 - 1) * hop_length + j <= Len(audio_data)
                THEN audio_data[(k1 - 1) * hop_length + j] ELSE 0])])

\* librosa.util.frame: frame k (k = 0, 1, ...), stored at position k + 1,
\* holds the samples k*hop .. k*hop + frame_length - 1
frame(audio_data, frame_length, hop_length) ==
    LET n == 1 + (Len(audio_data) - frame_length) \div hop_length
    IN  Tuple([k1 \in 1..n |->
            SubSeq(audio_data, (k1 - 1) * hop_length + 1,
                               (k1 - 1) * hop_length + frame_length)])

\* energy = np.sum(frames**2, axis=0)
frame_energy(frames) ==
    Tuple([k1 \in 1..Len(frames) |-> SeqSum(Squares(frames[k1]))])

\* librosa.amplitude_to_db(energy, ref=np.max) with its defaults amin = 1e-5
\* and top_db = 80: the argument is taken as an amplitude, so the value is
\*   max(20*log10(max(amin, e)) - 20*log10(max(amin, ref)), -top_db).
AMin == 10                      \* amin = 1e-5, in millionths
TopDb == 80

\* 10^(45/20) = 177.8279410038..., 10^(20/20) = 10, 10^(0/20) = 1:
\* K = KInt + KMicro / 10^6
KInt(threshold_db) ==
    IF threshold_db = -45 THEN 177 ELSE IF threshold_db = -20 THEN 10 ELSE 1
KMicro(threshold_db) == IF threshold_db = -45 THEN 827941 ELSE 0

\* 20*log10(p/q) < threshold_db, that is p * 10^(-threshold_db/20) < q,
\* for integers p > 0 and q
Db20Below(p, q, threshold_db) ==
    /\ p * KInt(threshold_db) < q
    /\ p * KInt(threshold_db) + (p * KMicro(threshold_db)) \div 1000000 < q

\* energy_db < threshold_db for one frame of energy e when the largest frame
\* energy is ref
amplitude_to_db_below(e, ref, threshold_db) ==
    /\ threshold_db > -TopDb
    /\ Db20Below(Max(AMin, e), Max(AMin, ref), threshold_db)

\* the reference fixed at full scale, 1.0 in millionths
energy_ref_unit(energy) == 1000 * 1000

\* ref=np.max: the largest frame energy of the buffer
energy_ref(energy) == SeqMax(energy)

\* silence_mask = energy_db < threshold_db, one entry per frame
frame_silence(audio_data, sr, threshold_db) ==
    LET energy == frame_energy(frame(audio_data, FrameLength(sr), HopLength(sr)))
        ref == energy_ref(energy)
    IN  Tuple([k1 \in 1..Len(energy) |->
            amplitude_to_db_below(energy[k1], ref, threshold_db)])

\* the expansion loop with full_mask[start:end] = is_silence for every frame
RECURSIVE expand_mask_overwrite(_, _, _, _, _)
expand_mask_overwrite(full_mask, silence_mask, i, frame_length, hop_length) ==
    IF i >= Len(silence_mask) THEN full_mask
    ELSE LET start == i * hop_length
             end == Min(start + frame_length, Len(full_mask))
             marked == Tuple([j \in 1..Len(full_mask) |->
                               IF j - 1 >= start /\ j - 1 < end THEN silence_mask[i + 1]
                               ELSE full_mask[j]])
         IN  expand_mask_overwrite(marked, silence_mask, i + 1, frame_length, hop_length)

\* the loop that expands the frame mask to sample resolution, from frame i on
RECURSIVE expand_mask(_, _, _, _, _)
expand_mask(full_mask, silence_mask, i, frame_length, hop_length) ==
    IF i >= Len(silence_mask) THEN full_mask
    ELSE LET start == i * hop_length
             end == Min(start + frame_length, Len(full_mask))
             marked == IF silence_mask[i + 1]
                       THEN Tuple([j \in 1..Len(full_mask) |->
                               IF j - 1 >= start /\ j - 1 < end THEN TRUE
                               ELSE full_mask[j]])
                       ELSE full_mask
         IN  expand_mask(marked, silence_mask, i + 1, frame_length, hop_length)

\* the detector that ignores its threshold argument and always uses -45 dB
NoiseReducer_detect_silence_fixed(audio_data, sr, threshold_db) ==
    expand_mask(Const(Len(audio_data), FALSE),
                frame_silence(audio_data, sr, -45),
                0, FrameLength(sr), HopLength(sr))

\* NoiseReducer.detect_silence, when framing does not raise
NoiseReducer_detect_silence(audio_data, sr, threshold_db) ==
    expand_mask(Const(Len(audio_data), FALSE),
                frame_silence(audio_data, sr, threshold_db),
                0, FrameLength(sr), HopLength(sr))

\* ------------------------------------------------------ metric values
\* A metric is kept exact: "const" is val/1000, "frac" is num/den, "sqrt" is
\* sqrt(num/den), "log" is 10*log10(num/den), "nan" is a float NaN.
Const1000(v) == [kind |-> "const", val |-> v, num |-> 0, den |-> 1]
Frac(n, d) == [kind |-> "frac", val |-> 0, num |-> n, den |-> d]
Sqrt(n, d) == [kind |-> "sqrt", val |-> 0, num |-> n, den |-> d]
Log10x10(n, d) == [kind |-> "log", val |-> 0, num |-> n, den |-> d]
NaN == [kind |-> "nan", val |-> 0, num |-> 0, den |-> 1]

RECURSIVE Pow10(_)
Pow10(e) == IF e = 0 THEN 1 ELSE 10 * Pow10(e - 1)

RECURSIVE GCD(_, _)
GCD(a, b) == IF b = 0 THEN a ELSE GCD(b, a % b)

\* metric <= c/1000.  A comparison with NaN is false.  A "log" metric is
\* compared with whole multiples of 10 dB only.
LE(m, c) ==
    CASE m.kind = "const" -> m.val <= c
      [] m.kind = "frac" -> m.num * 1000 <= c * m.den
      [] m.kind = "sqrt" -> /\ c >= 0
                            /\ LET g == GCD(c, 1000)
                               IN  m.num * (1000 \div g) * (1000 \div g)
                                      <= (c \div g) * (c \div g) * m.den
      [] m.kind = "log" -> LET e == c \div 10000
                           IN  IF e >= 0 THEN m.num <= m.den * Pow10(e)
                               ELSE m.num * Pow10(-e) <= m.den
      [] OTHER -> FALSE

\* metric >= c/1000
GE(m, c) ==
    CASE m.kind = "const" -> m.val >= c
      [] m.kind = "frac" -> m.num * 1000 >= c * m.den
      [] m.kind = "sqrt" -> \/ c <= 0
                            \/ LET g == GCD(c, 1000)
                               IN  m.num * (1000 \div g) * (1000 \div g)
                                      >= (c \div g) * (c \div g) * m.den
      [] m.kind = "log" -> LET e == c \div 10000
                           IN  IF e >= 0 THEN m.num >= m.den * Pow10(e)
                               ELSE m.num * Pow10(-e) >= m.den
      [] OTHER -> FALSE

Finite(m) ==
    CASE m.kind = "const" -> TRUE
      [] m.kind = "frac" -> m.den # 0
      [] m.kind = "sqrt" -> m.den > 0 /\ m.num >= 0
      [] m.kind = "log" -> m.den > 0 /\ m.num > 0
      [] OTHER -> FALSE

\* --------------------------------------------------------- AudioEvaluator
\* self.standards of AudioEvaluator.__init__, in thousandths
DefaultStandards ==
    [rms_db |-> -30000, peak_db |-> 0, cv |-> 500, snr |-> 20000,
     non_speech_ratio |-> 300, max_silence |-> 1000]

SentinelDb == -100000           \* the -100 of calculate_rms and calculate_peak
SentinelSnr == 100000           \* the 100 of estimate_snr
SentinelCv == 1000              \* the 1.0 of calculate_cv

\* calculate_rms: np.mean of an empty buffer is NaN, and NaN > 0 is false
calculate_rms(audio_data) ==
    LET n == Len(audio_data)
        q == SeqSum(Squares(audio_data))
    IN  IF n = 0 THEN [rms |-> NaN, rms_db |-> Const1000(SentinelDb)]
        ELSE [rms |-> Sqrt(q, n * 1000000),
              rms_db |-> IF q > 0 THEN Log10x10(q, n * 1000000)
                         ELSE Const1000(SentinelDb)]

\* np.max of an empty buffer raises
calculate_peak_raises(audio_data) == Len(audio_data) = 0

calculate_peak(audio_data) ==
    LET peak == SeqMax(AbsSeq(audio_data))
    IN  [peak |-> Const1000(peak),
         peak_db |-> IF peak > 0 THEN Log10x10(peak * peak, 1000000)
                     ELSE Const1000(SentinelDb)]

\* calculate_cv without the test of the mean
calculate_cv_unguarded(audio_data) ==
    LET a1 == SeqSum(AbsSeq(audio_data))
        a2 == SeqSum(Squares(audio_data))
    IN  Sqrt(Len(audio_data) * a2 - a1 * a1, a1 * a1)

\* cv = std(|x|) / mean(|x|): cv^2 = (n*sum(x^2) - sum(|x|)^2) / sum(|x|)^2
calculate_cv(audio_data) ==
    LET n == Len(audio_data)
        a1 == SeqSum(AbsSeq(audio_data))
        a2 == SeqSum(Squares(audio_data))
    IN  IF n > 0 /\ a1 > 0 THEN Sqrt(n * a2 - a1 * a1, a1 * a1)
        ELSE Const1000(SentinelCv)

\* the ratio taken as noise power over signal power
estimate_snr_inverted(audio_data) ==
    LET n == Len(audio_data)
        s == SeqSum(audio_data)
        q == SeqSum(Squares(audio_data))
    IN  IF n > 0 /\ n * q - s * s > 0 THEN Log10x10(n * q - s * s, n * q)
        ELSE Const1000(SentinelSnr)

\* signal_power = sum(x^2)/n, noise_power = (n*sum(x^2) - sum(x)^2)/n^2
estimate_snr(audio_data) ==
    LET n == Len(audio_data)
        s == SeqSum(audio_data)
        q == SeqSum(Squares(audio_data))
    IN  IF n > 0 /\ n * q - s * s > 0 THEN Log10x10(n * q, n * q - s * s)
        ELSE Const1000(SentinelSnr)

\* the loop without the final max(max_silence_frames, current_silence)
RECURSIVE longest_run_no_tail(_, _, _)
longest_run_no_tail(silence_mask, max_silence_frames, current_silence) ==
    IF silence_mask = <<>> THEN max_silence_frames
    ELSE IF Head(silence_mask)
         THEN longest_run_no_tail(Tail(silence_mask), max_silence_frames,
                                  current_silence + 1)
         ELSE longest_run_no_tail(Tail(silence_mask),
                                  Max(max_silence_frames, current_silence), 0)

\* the loop of AudioEvaluator.detect_silence over the frame mask, with the
\* final max(max_silence_frames, current_silence)
RECURSIVE longest_run(_, _, _)
longest_run(silence_mask, max_silence_frames, current_silence) ==
    IF silence_mask = <<>> THEN Max(max_silence_frames, current_silence)
    ELSE IF Head(silence_mask)
         THEN longest_run(Tail(silence_mask), max_silence_frames, current_silence + 1)
         ELSE longest_run(Tail(silence_mask),
                          Max(max_silence_frames, current_silence), 0)

\* AudioEvaluator.detect_silence, when framing does not raise
AudioEvaluator_detect_silence(audio_data, sr, threshold_db) ==
    LET silence_mask == frame_silence(audio_data, sr, threshold_db)
    IN  [non_speech_ratio |-> Frac(CountTrue(silence_mask), Len(silence_mask)),
         max_silence |-> Frac(longest_run(silence_mask, 0, 0) * HopLength(sr), sr)]

\* the verdict with a strict comparison of the signal-to-noise ratio
compliant_strict(metrics, stds) ==
    /\ GE(metrics.rms_db, stds.rms_db)
    /\ LE(metrics.peak_db, stds.peak_db)
    /\ LE(metrics.cv, stds.cv)
    /\ ~LE(metrics.snr, stds.snr)
    /\ LE(metrics.non_speech_ratio, stds.non_speech_ratio)
    /\ LE(metrics.max_silence, stds.max_silence)

\* the verdict of evaluate_audio
compliant(metrics, stds) ==
    /\ GE(metrics.rms_db, stds.rms_db)
    /\ LE(metrics.peak_db, stds.peak_db)
    /\ LE(metrics.cv, stds.cv)
    /\ GE(metrics.snr, stds.snr)
    /\ LE(metrics.non_speech_ratio, stds.non_speech_ratio)
    /\ LE(metrics.max_silence, stds.max_silence)

\* ------------------------------------------------------- library kernels
\* The transforms of librosa and scipy are not code of this repository.  Each
\* is represented by an integer transform with the library's contract for the
\* shape of its result and for the inputs it rejects; its values are results
\* on the sample grid, a function of its arguments only.
NumBins == 2                    \* frequency bins kept of the 1 + n_fft/2
NumScales == 2                  \* wavelet widths kept of np.arange(1, 31)
NFft == 2048
StftHop == 512
ButterOrder == 8
PadLen == 3 * (ButterOrder + 1) \* filtfilt's default padlen, 3 * max(len(a), len(b))

RECURSIVE Pow2(_)
Pow2(e) == IF e = 0 THEN 1 ELSE 2 * Pow2(e - 1)

\* the analysing component of bin b (b = 1 is the constant one) at sample i:
\* a square wave of half period 2^(NumBins - b)
BinWave(b, i) ==
    IF b = 1 THEN 1
    ELSE IF (i \div Pow2(NumBins - b)) % 2 = 0 THEN 1 ELSE -1

\* librosa.stft(y, n_fft, hop_length), centred: 1 + len(y) div hop_length
\* frames, frame t covering the samples within n_fft/2 of t * hop_length;
\* result[t][b] is the (real) coefficient of bin b in frame t
stft(y, n_fft, hop_length) ==
    Tuple([t \in 1..(1 + Len(y) \div hop_length) |->
        Tuple([b \in 1..NumBins |->
            SeqSum([i \in 1..Len(y) |->
                IF Abs((i - 1) - (t - 1) * hop_length) <= n_fft \div 2
                THEN y[i] * BinWave(b, i - 1) ELSE 0])])])

\* np.abs / librosa.magphase magnitude, and the sign that np.angle keeps
Magnitude(spec) ==
    Tuple([t \in 1..Len(spec) |-> Tuple([b \in 1..NumBins |-> Abs(spec[t][b])])])
Phase(spec) ==
    Tuple([t \in 1..Len(spec) |->
        Tuple([b \in 1..NumBins |-> IF spec[t][b] < 0 THEN -1 ELSE 1])])

\* librosa.istft(spec, hop_length, length): `length` samples, sample i being
\* rebuilt from the frame nearest to it; spec is given in units of 1/scale
istft(spec, scale, hop_length, length) ==
    Tuple([i \in 1..length |->
        LET t == Min(Len(spec), 1 + ((i - 1) + hop_length \div 2) \div hop_length)
        IN  Trunc(SeqSum([b \in 1..NumBins |-> spec[t][b] * BinWave(b, i - 1)]),
                  scale * length)])

\* signal.filtfilt(b, a, x) of the 8th-order Butterworth low-pass: rejects a
\* buffer of at most padlen samples
filtfilt_raises(x) == Len(x) <= PadLen

\* zero-phase low-pass with unit gain for a constant, odd extension at the ends
filtfilt(x) ==
    Tuple([i \in 1..Len(x) |->
        IF i = 1 \/ i = Len(x) THEN x[i]
        ELSE Trunc(x[i - 1] + 2 * x[i] + x[i + 1], 4)])

\* signal.ricker-shaped zero-mean kernel of width a at offset t
ricker(a, t) ==
    IF Abs(t) < a THEN 2 ELSE IF Abs(t) < 3 * a - 1 THEN -1 ELSE 0

\* signal.cwt(data, signal.ricker, widths): one row per width, each the
\* convolution (mode 'same') of the data with the kernel of that width
cwt(data, widths) ==
    Tuple([a \in 1..widths |->
        Tuple([i \in 1..Len(data) |->
            SeqSum([j \in 1..Len(data) |-> data[j] * ricker(a, j - i)])])])

\* the convolution of an empty buffer raises
cwt_raises(data) == Len(data) = 0

\* floor of the square root
RECURSIVE ISqrtIn(_, _, _)
ISqrtIn(v, lo, hi) ==
    IF lo >= hi THEN lo
    ELSE LET mid == (lo + hi + 1) \div 2
         IN  IF mid * mid <= v THEN ISqrtIn(v, mid, hi) ELSE ISqrtIn(v, lo, mid - 1)
ISqrt(v) == ISqrtIn(v, 0, 46340)

\* ----------------------------------------------------------- NoiseReducer
silence_threshold_db == -45     \* self.silence_threshold_db
WaveletThresholdMult10 == 25    \* self.wavelet_threshold_mult = 2.5, in tenths
Mad10000 == 6745                \* the 0.6745 of the threshold, in ten-thousandths

\* the result of one NoiseReducer call: `out` holds the returned samples in
\* units of 1/scale of a thousandth; `steps` lists the computations that
\* completed; the other fields are the locals of the call
Blank ==
    [outcome |-> "error", steps |-> <<>>, out |-> <<>>, scale |-> 1,
     branch |-> "none", mask |-> <<>>,
     stft_mag |-> <<>>, noise_sum |-> <<>>, noise_frames |-> 0,
     masked_stft_mag |-> <<>>,
     stage1 |-> <<>>, stage2 |-> <<>>, base |-> <<>>, blended |-> <<>>,
     window_size |-> 0,
     ref |-> "none", written |-> {},
     normalised |-> <<>>, norm_den |-> 1, gain |-> [num |-> NaN, den |-> NaN]]

\* np.zeros_like replaced by the array itself
zeros_like_alias(source, fresh) == source

\* np.zeros_like(source): a new array, named `fresh`
zeros_like(source, fresh) == fresh

\* the caller's buffer after a call: the samples stored into it, if the call
\* stored into the array it was given
after_call(audio_data, r) ==
    IF "audio_data" \in r.written
    THEN Tuple([i \in 1..Len(r.out) |-> Trunc(r.out[i], r.scale)])
    ELSE audio_data

\* audio_data[silence_mask]
RECURSIVE BoolIndex(_, _)
BoolIndex(audio_data, mask) ==
    IF audio_data = <<>> THEN <<>>
    ELSE IF Head(mask) THEN <<Head(audio_data)>> \o BoolIndex(Tail(audio_data), Tail(mask))
         ELSE BoolIndex(Tail(audio_data), Tail(mask))

\* the subtraction with np.minimum in place of np.maximum
subtract_floor_min(mag, noise_sum, noise_frames) ==
    Min(100 * (noise_frames * mag - noise_sum), noise_frames * mag)

\* np.maximum(stft_mag - noise_spec, 0.01 * stft_mag) for one bin, where
\* noise_spec = noise_sum / noise_frames; the value is in units of
\* 1 / (100 * noise_frames)
subtract_floor(mag, noise_sum, noise_frames) ==
    Max(100 * (noise_frames * mag - noise_sum), noise_frames * mag)

\* the branch test as np.all(silence_mask)
has_silence_all(silence_mask) == CountTrue(silence_mask) = Len(silence_mask)

\* np.sum(silence_mask) > 0
has_silence(silence_mask) == CountTrue(silence_mask) > 0

\* the spectral subtraction, from the transform of the buffer and the
\* magnitudes of the transform of its silent samples
spectral_subtraction(audio_data, silence_mask, spec, stft_mag, noise_mag, noise_sum) ==
    LET masked_stft_mag ==
            Tuple([t \in 1..Len(stft_mag) |-> Tuple([b \in 1..NumBins |->
                subtract_floor(stft_mag[t][b], noise_sum[b], Len(noise_mag))])])
        masked_stft ==
            Tuple([t \in 1..Len(stft_mag) |-> Tuple([b \in 1..NumBins |->
                masked_stft_mag[t][b] * Phase(spec)[t][b]])])
    IN  [Blank EXCEPT
           !.outcome = "ok",
           !.steps = <<"detect_silence", "stft", "stft", "istft">>,
           !.branch = "spectral", !.mask = silence_mask,
           !.stft_mag = stft_mag, !.noise_sum = noise_sum,
           !.noise_frames = Len(noise_mag),
           !.masked_stft_mag = masked_stft_mag,
           !.ref = "denoised_audio",
           !.out = istft(masked_stft, 100 * Len(noise_mag), StftHop,
                         Len(audio_data))]

\* noise_spec = np.mean(noise_mag, axis=1), as the sum over the frames
noise_profile(noise_mag) ==
    Tuple([b \in 1..NumBins |-> SeqSum([t \in 1..Len(noise_mag) |-> noise_mag[t][b]])])

\* the two branches of reduce_noise_standard, from the mask of detect_silence
standard_branch(audio_data, silence_mask, spec, noise_mag) ==
    IF has_silence(silence_mask)
    THEN spectral_subtraction(audio_data, silence_mask, spec, Magnitude(spec),
                              noise_mag, noise_profile(noise_mag))
    ELSE IF filtfilt_raises(audio_data)
         THEN [Blank EXCEPT !.steps = <<"detect_silence", "butter">>,
                            !.branch = "lowpass", !.mask = silence_mask]
         ELSE [Blank EXCEPT
                !.outcome = "ok",
                !.steps = <<"detect_silence", "butter", "filtfilt">>,
                !.branch = "lowpass", !.mask = silence_mask,
                !.ref = "denoised_audio",
                !.out = filtfilt(audio_data)]

\* the transform of the samples the mask selects
noise_stft(audio_data, silence_mask) ==
    Magnitude(stft(BoolIndex(audio_data, silence_mask), NFft, StftHop))

standard_masked(audio_data, silence_mask) ==
    standard_branch(audio_data, silence_mask, stft(audio_data, NFft, StftHop),
                    noise_stft(audio_data, silence_mask))

reduce_noise_standard(audio_data, sr) ==
    IF frame_raises(audio_data, FrameLength(sr), HopLength(sr)) THEN Blank
    ELSE standard_masked(audio_data,
             NoiseReducer_detect_silence(audio_data, sr, silence_threshold_db))

\* twice np.median(np.abs(coeffs)): the middle value of the sorted absolute
\* coefficients, or the sum of the two middle values
Median2(coeffs) ==
    LET idx == (1..Len(coeffs)) \X (1..Len(coeffs[1]))
        av(p) == Abs(coeffs[p[1]][p[2]])
        n == Cardinality(idx)
        kth(k) == CHOOSE v \in {av(p) : p \in idx} :
                     /\ Cardinality({p \in idx : av(p) < v}) < k
                     /\ Cardinality({p \in idx : av(p) <= v}) >= k
    IN  IF n % 2 = 1 THEN 2 * kth((n + 1) \div 2)
        ELSE kth(n \div 2) + kth(n \div 2 + 1)

\* np.abs(c) > threshold, threshold = wavelet_threshold_mult * median / 0.6745
above_threshold(c, median2) ==
    Abs(c) * Mad10000 * 20 > WaveletThresholdMult10 * 10000 * median2

\* the samples reduce_noise_wavelet returns, from the column sums d of the
\* thresholded coefficients: d * sqrt(sum(x^2) / sum(d^2)) (the division by
\* the number of widths and the unit-peak normalisation cancel in the energy
\* rescale), with the gain taken in 64ths
rescale(colsum, audio_data) ==
    LET qx == SeqSum(Squares(audio_data))
        qd == SeqSum(Squares(colsum))
    IN  IF qd = 0 THEN Const(Len(colsum), 0)
        ELSE LET gain64 == ISqrt((qx * 4096) \div qd)
             IN  Tuple([i \in 1..Len(colsum) |-> Trunc(colsum[i] * gain64, 64)])

\* np.mean(v**2) of the samples values[i] / den, in lowest terms
mean_square(values, den) ==
    LET q == SeqSum(Squares(values))
        d == Len(values) * den * den
        g == GCD(q, d)
    IN  Frac(q \div g, d \div g)

\* the factor with the two energies exchanged
energy_gain_inverse(orig_energy2, denoised_energy2) ==
    [num |-> denoised_energy2, den |-> orig_energy2]

\* the square of the factor orig_energy / denoised_energy, kept as the pair of
\* the two squared energies
energy_gain(orig_energy2, denoised_energy2) ==
    [num |-> orig_energy2, den |-> denoised_energy2]

\* the coefficients with no threshold applied
threshold_coeffs_keep(coeffs, median2) == coeffs

\* coeffs * (np.abs(coeffs) > threshold)
threshold_coeffs(coeffs, median2) ==
    Tuple([a \in 1..Len(coeffs) |-> Tuple([i \in 1..Len(coeffs[a]) |->
        IF above_threshold(coeffs[a][i], median2) THEN coeffs[a][i] ELSE 0])])

\* np.mean(coeffs_thresholded, axis=0), as the sum over the widths
column_sums(coeffs_thresholded) ==
    Tuple([i \in 1..Len(coeffs_thresholded[1]) |->
        SeqSum([a \in 1..Len(coeffs_thresholded) |-> coeffs_thresholded[a][i]])])

\* the normalisation to unit peak and the rescale to the input's energy
wavelet_rescaled(colsum, norm_den, denoised_energy2, audio_data) ==
    [Blank EXCEPT !.outcome = "ok", !.steps = <<"cwt">>,
                  !.ref = "denoised_audio",
                  !.normalised = colsum, !.norm_den = norm_den,
                  !.gain = IF denoised_energy2.num > 0
                           THEN energy_gain(mean_square(audio_data, 1),
                                            denoised_energy2)
                           ELSE [num |-> Frac(1, 1), den |-> Frac(1, 1)],
                  !.out = rescale(colsum, audio_data)]

\* the divisor of the reconstruction: its peak, or the number of widths when
\* it is zero throughout
norm_divisor(peak) == IF peak > 0 THEN peak ELSE NumScales

wavelet_normalised(colsum, norm_den, audio_data) ==
    wavelet_rescaled(colsum, norm_den, mean_square(colsum, norm_den), audio_data)

wavelet_reconstruct(colsum, audio_data) ==
    wavelet_normalised(colsum, norm_divisor(SeqMax(AbsSeq(colsum))), audio_data)

wavelet_threshold(coeffs, audio_data) ==
    wavelet_reconstruct(column_sums(threshold_coeffs(coeffs, Median2(coeffs))),
                        audio_data)

reduce_noise_wavelet(audio_data) ==
    IF cwt_raises(audio_data) THEN Blank
    ELSE wavelet_threshold(cwt(audio_data, NumScales), audio_data)

\* the mix with the two voiced weights exchanged
mix_swapped(is_silence, stage2, original) ==
    IF is_silence THEN 9 * stage2 ELSE 4 * stage2 + 6 * original

\* the adaptive mix of multi_stage_denoising for one sample, in tenths
mix(is_silence, stage2, original) ==
    IF is_silence THEN 9 * stage2 ELSE 6 * stage2 + 4 * original

\* the adaptive mix, from the results of the two stages and the mask of the
\* original buffer
multi_stage_mixed(r1, r2, silence_mask, mixed_audio, audio_data) ==
    [Blank EXCEPT
       !.outcome = "ok",
       !.ref = mixed_audio, !.written = {mixed_audio},
       !.steps = r1.steps \o r2.steps \o <<"detect_silence">>,
       !.branch = r1.branch, !.mask = silence_mask,
       !.stage1 = r1.out, !.stage2 = r2.out, !.scale = 10,
       !.out = Tuple([i \in 1..Len(audio_data) |->
                  mix(silence_mask[i], r2.out[i], audio_data[i])])]

\* the second stage and the mix, from the result of the first stage
multi_stage_stage2(r1, r2, audio_data, sr) ==
    IF r2.outcome = "error"
    THEN [Blank EXCEPT !.steps = r1.steps \o r2.steps, !.stage1 = r1.out]
    ELSE multi_stage_mixed(r1, r2,
             NoiseReducer_detect_silence(audio_data, sr, silence_threshold_db),
             zeros_like("audio_data", "mixed_audio"), audio_data)

multi_stage_stage1(r1, audio_data, sr) ==
    IF r1.outcome = "error" THEN [Blank EXCEPT !.steps = r1.steps]
    ELSE multi_stage_stage2(r1, reduce_noise_wavelet(r1.out), audio_data, sr)

multi_stage_denoising(audio_data, sr) ==
    multi_stage_stage1(reduce_noise_standard(audio_data, sr), audio_data, sr)

\* the blend with the two voiced weights exchanged
blend_swapped(is_silence, base, original) ==
    IF is_silence THEN 9 * base ELSE 3 * base + 70 * original

\* the voice-preserving blend of enhanced_multi_stage_denoising for one
\* sample, in hundredths; base is in tenths
blend(is_silence, base, original) ==
    IF is_silence THEN 9 * base ELSE 7 * base + 30 * original

\* the test of voice_preserve read as always true
voice_branch_always(voice_preserve) == TRUE

\* if voice_preserve:
voice_branch(voice_preserve) == voice_preserve

\* the full convolution, of n + w - 1 samples
convolve_full(result, window_size) ==
    Tuple([k \in 1..(Len(result) + window_size - 1) |->
        SeqSum([j \in 1..Len(result) |->
            IF (k - 1) - (j - 1) >= 0 /\ (k - 1) - (j - 1) <= window_size - 1
            THEN result[j] ELSE 0])])

\* the moving sum over the window that ends at the sample
convolve_causal(result, window_size) ==
    Tuple([k \in 1..Len(result) |->
        SeqSum([j \in 1..Len(result) |->
            IF k - j >= 0 /\ k - j <= window_size - 1 THEN result[j] ELSE 0])])

\* np.convolve(result, np.ones(window_size) / window_size, mode='same'): the
\* centre max(n, w) samples of the full convolution, in units of 1/window_size
convolve_same(result, window_size) ==
    LET n == Len(result)
        shift == (Min(n, window_size) - 1) \div 2
    IN  Tuple([k \in 1..Max(n, window_size) |->
            SeqSum([j \in 1..n |->
                IF (k - 1) + shift - (j - 1) >= 0
                   /\ (k - 1) + shift - (j - 1) <= window_size - 1
                THEN result[j] ELSE 0])])

\* the blend with the original and the smoothing, applied to the result r of
\* multi_stage_denoising
voice_preserved(r, silence_mask, result_ref, window_size, audio_data) ==
    LET result == Tuple([i \in 1..Len(audio_data) |->
                      blend(silence_mask[i], r.out[i], audio_data[i])])
    IN  [r EXCEPT
           !.steps = r.steps \o <<"detect_silence", "convolve">>,
           !.base = r.out, !.blended = result,
           !.window_size = window_size,
           !.scale = 100 * window_size,
           !.written = r.written \cup {result_ref}, !.ref = "convolved",
           !.out = convolve_same(result, window_size)]

enhanced_from(r, audio_data, sr, voice_preserve) ==
    IF r.outcome = "error" \/ ~voice_branch(voice_preserve) THEN r
    ELSE voice_preserved(r,
             NoiseReducer_detect_silence(audio_data, sr, silence_threshold_db),
             zeros_like("audio_data", "result"), HopLength(sr), audio_data)

enhanced_multi_stage_denoising(audio_data, sr, voice_preserve) ==
    enhanced_from(multi_stage_denoising(audio_data, sr), audio_data, sr,
                  voice_preserve)

\* evaluate_audio: the metrics are computed in the order rms, peak, cv, snr,
\* silence; np.max raises on an empty buffer and the framing raises as in
\* NoiseReducer.detect_silence
NoMetrics ==
    [rms |-> NaN, rms_db |-> NaN, peak |-> NaN, peak_db |-> NaN, cv |-> NaN,
     snr |-> NaN, non_speech_ratio |-> NaN, max_silence |-> NaN]

EvalBlank ==
    [outcome |-> "error", steps |-> <<>>, metrics |-> NoMetrics, compliant |-> FALSE]

evaluate_audio(audio_data, sr, stds) ==
    IF calculate_peak_raises(audio_data)
    THEN [EvalBlank EXCEPT !.steps = <<"calculate_rms">>]
    ELSE IF frame_raises(audio_data, FrameLength(sr), HopLength(sr))
    THEN [EvalBlank EXCEPT !.steps = <<"calculate_rms", "calculate_peak",
                                       "calculate_cv", "estimate_snr">>]
    ELSE
    LET r == calculate_rms(audio_data)
        p == calculate_peak(audio_data)
        d == AudioEvaluator_detect_silence(audio_data, sr, silence_threshold_db)
        metrics == [rms |-> r.rms, rms_db |-> r.rms_db,
                    peak |-> p.peak, peak_db |-> p.peak_db,
                    cv |-> calculate_cv(audio_data),
                    snr |-> estimate_snr(audio_data),
                    non_speech_ratio |-> d.non_speech_ratio,
                    max_silence |-> d.max_silence]
    IN  [outcome |-> "ok",
         steps |-> <<"calculate_rms", "calculate_peak", "calculate_cv",
                     "estimate_snr", "detect_silence">>,
         metrics |-> metrics,
         compliant |-> compliant(metrics, stds)]

\* ------------------------------------------------------------------ state
VARIABLES
    sample_rate,    \* NoiseReducer.sample_rate
    standards,      \* AudioEvaluator.standards
    audio,          \* the buffer the caller holds
    op,             \* the last call made
    args,           \* its arguments other than the buffer
    ret,            \* the result of the last NoiseReducer call
    eval_ret,       \* the result of the last AudioEvaluator call
    other_standards,    \* the standards of a second AudioEvaluator
    prev,           \* an earlier call and its result, kept for comparison
    workers,        \* the workers that process files with one NoiseReducer
    batch           \* the NoiseReductionExperiment and its loop in progress

vars == <<sample_rate, standards, audio, op, args, ret, eval_ret,
          other_standards, prev, workers, batch>>

\* the state outside the NoiseReducer and the AudioEvaluator under call
runner_vars == <<other_standards, prev, workers, batch>>

RECURSIVE SeqsUpTo(_)
SeqsUpTo(n) ==
    IF n = 0 THEN {<<>>}
    ELSE LET shorter == SeqsUpTo(n - 1)
         IN  shorter \cup {Append(x, a) : x \in {y \in shorter : Len(y) = n - 1},
                                           a \in Amp}

\* the long buffers: constant ones, and ones that are silent, with samples of
\* zero or of low amplitude, in their first or in their second half
LongBuffers ==
    {Const(LongLen, a) : a \in {0, 5, 100}}
    \cup {Tuple([i \in 1..LongLen |-> IF 2 * i <= LongLen THEN 0 ELSE 100]),
          Tuple([i \in 1..LongLen |-> IF 2 * i <= LongLen THEN 100 ELSE 0]),
          Tuple([i \in 1..LongLen |-> IF 2 * i <= LongLen THEN 5 ELSE 100]),
          Tuple([i \in 1..LongLen |-> IF 2 * i <= LongLen THEN 100 ELSE 5])}

Buffers == SeqsUpTo(MaxLen) \cup LongBuffers

NoArgs == [sr |-> 0, threshold_db |-> silence_threshold_db, voice_preserve |-> TRUE]

\* no call kept
NoCall == [op |-> "none", args |-> NoArgs, ret |-> Blank, eval_ret |-> EvalBlank]

\* no file
NoFile == [name |-> "", audio |-> <<>>, sr |-> 0, readable |-> FALSE, writable |-> FALSE]

\* an improvement of analyze_audio_pair is kept as the two metric values it
\* is computed from: "percent" is (processed - original) / original * 100,
\* "difference" is processed - original, "zero" is the 0 of a guard that failed
NoImprovement == [kind |-> "zero", processed |-> NaN, original |-> NaN]

\* no result record
NoResult ==
    [filename |-> "", original_compliant |-> FALSE, processed_compliant |-> FALSE,
     original |-> NoMetrics, processed |-> NoMetrics,
     rms_improvement |-> NoImprovement, peak_improvement |-> NoImprovement,
     snr_improvement |-> NoImprovement, cv_improvement |-> NoImprovement]

\* no pass through the try block of a batch loop
NoAttempt ==
    [outcome |-> "none", stage |-> "none", file |-> NoFile, method |-> "none",
     called |-> "none", processed |-> Blank, sr |-> 0, result |-> NoResult]

\* NoiseReductionExperiment.__init__: self.results = [], no loop running
NoBatch ==
    [mode |-> "idle", entry |-> "none", methods |-> <<>>, files |-> <<>>,
     method_idx |-> 0, file_idx |-> 0,
     results |-> <<>>, compliance_count |-> 0, log |-> <<>>, attempts |-> <<>>,
     last |-> NoAttempt, comparison |-> <<>>, returned |-> "none",
     previous |-> <<>>, table |-> <<>>]

\* NoiseReducer() and AudioEvaluator() as constructed by the experiment
\* runner; the caller holds one buffer
Init ==
    /\ sample_rate = 44100
    /\ standards = DefaultStandards
    /\ audio \in Buffers
    /\ op = "init"
    /\ args = NoArgs
    /\ ret = Blank
    /\ eval_ret = EvalBlank
    /\ other_standards = DefaultStandards
    /\ prev = NoCall
    /\ workers = <<>>
    /\ batch = NoBatch

\* self.noise_reducer.sample_rate = sr
set_sample_rate(sr) ==
    /\ sample_rate' = sr
    /\ op' = "set_sample_rate"
    /\ args' = [NoArgs EXCEPT !.sr = sr]
    /\ ret' = Blank
    /\ eval_ret' = EvalBlank
    /\ UNCHANGED <<standards, audio>>
    /\ UNCHANGED runner_vars

CallDetectSilence(threshold_db) ==
    /\ op' = "detect_silence"
    /\ args' = [NoArgs EXCEPT !.threshold_db = threshold_db]
    /\ ret' = IF frame_raises(audio, FrameLength(sample_rate), HopLength(sample_rate))
              THEN Blank
              ELSE LET m == NoiseReducer_detect_silence(audio, sample_rate, threshold_db)
                   IN  [Blank EXCEPT !.outcome = "ok", !.steps = <<"detect_silence">>,
                                     !.ref = "full_mask", !.written = {"full_mask"},
                                     !.mask = m, !.out = m]
    /\ eval_ret' = EvalBlank
    /\ UNCHANGED <<sample_rate, standards, audio>>
    /\ UNCHANGED runner_vars

CallStandard ==
    /\ op' = "reduce_noise_standard"
    /\ args' = NoArgs
    /\ ret' = reduce_noise_standard(audio, sample_rate)
    /\ audio' = after_call(audio, ret')
    /\ eval_ret' = EvalBlank
    /\ UNCHANGED <<sample_rate, standards>>
    /\ UNCHANGED runner_vars

CallWavelet ==
    /\ op' = "reduce_noise_wavelet"
    /\ args' = NoArgs
    /\ ret' = reduce_noise_wavelet(audio)
    /\ audio' = after_call(audio, ret')
    /\ eval_ret' = EvalBlank
    /\ UNCHANGED <<sample_rate, standards>>
    /\ UNCHANGED runner_vars

CallMultiStage ==
    /\ op' = "multi_stage_denoising"
    /\ args' = NoArgs
    /\ ret' = multi_stage_denoising(audio, sample_rate)
    /\ audio' = after_call(audio, ret')
    /\ eval_ret' = EvalBlank
    /\ UNCHANGED <<sample_rate, standards>>
    /\ UNCHANGED runner_vars

CallEnhanced(voice_preserve) ==
    /\ op' = "enhanced_multi_stage_denoising"
    /\ args' = [NoArgs EXCEPT !.voice_preserve = voice_preserve]
    /\ ret' = enhanced_multi_stage_denoising(audio, sample_rate, voice_preserve)
    /\ audio' = after_call(audio, ret')
    /\ eval_ret' = EvalBlank
    /\ UNCHANGED <<sample_rate, standards>>
    /\ UNCHANGED runner_vars

CallEvaluate(sr) ==
    /\ op' = "evaluate_audio"
    /\ args' = [NoArgs EXCEPT !.sr = sr]
    /\ eval_ret' = evaluate_audio(audio, sr, standards)
    /\ ret' = Blank
    /\ UNCHANGED <<sample_rate, standards, audio>>
    /\ UNCHANGED runner_vars

CallEvaluatorDetectSilence(sr, threshold_db) ==
    /\ op' = "evaluator_detect_silence"
    /\ args' = [NoArgs EXCEPT !.sr = sr, !.threshold_db = threshold_db]
    /\ eval_ret' =
         IF frame_raises(audio, FrameLength(sr), HopLength(sr)) THEN EvalBlank
         ELSE LET d == AudioEvaluator_detect_silence(audio, sr, threshold_db)
              IN  [EvalBlank EXCEPT
                     !.outcome = "ok", !.steps = <<"detect_silence">>,
                     !.metrics = [NoMetrics EXCEPT
                                    !.non_speech_ratio = d.non_speech_ratio,
                                    !.max_silence = d.max_silence]]
    /\ ret' = Blank
    /\ UNCHANGED <<sample_rate, standards, audio>>
    /\ UNCHANGED runner_vars

Next ==
    \/ \E sr \in Rates : set_sample_rate(sr)
    \/ \E t \in ThresholdsDb : CallDetectSilence(t)
    \/ CallStandard
    \/ CallWavelet
    \/ CallMultiStage
    \/ \E vp \in BOOLEAN : CallEnhanced(vp)
    \/ \E sr \in Rates : CallEvaluate(sr)
    \/ \E sr \in Rates, t \in ThresholdsDb : CallEvaluatorDetectSilence(sr, t)

Spec == Init /\ [][Next]_vars

\* ------------------------------------------- the verdict on given metrics
\* The comparison of evaluate_audio applied to metric values next to the
\* thresholds of the standard.
NearBy(c) == {c - 1, c, c + 1}

VerdictInit ==
    /\ sample_rate = 44100
    /\ standards = DefaultStandards
    /\ audio = <<>>
    /\ op = "init"
    /\ args = NoArgs
    /\ ret = Blank
    /\ eval_ret = EvalBlank
    /\ other_standards = DefaultStandards
    /\ prev = NoCall
    /\ workers = <<>>
    /\ batch = NoBatch

evaluate_audio_verdict ==
    \E r \in NearBy(standards.rms_db), p \in NearBy(standards.peak_db),
       c \in NearBy(standards.cv), s \in NearBy(standards.snr),
       n \in NearBy(standards.non_speech_ratio), m \in NearBy(standards.max_silence) :
        LET metrics == [NoMetrics EXCEPT
                          !.rms_db = Const1000(r), !.peak_db = Const1000(p),
                          !.cv = Const1000(c), !.snr = Const1000(s),
                          !.non_speech_ratio = Const1000(n),
                          !.max_silence = Const1000(m)]
        IN  /\ op' = "verdict"
            /\ eval_ret' = [outcome |-> "ok", steps |-> <<>>, metrics |-> metrics,
                            compliant |-> compliant(metrics, standards)]
            /\ UNCHANGED <<sample_rate, standards, audio, args, ret>>
            /\ UNCHANGED runner_vars

VerdictNext == evaluate_audio_verdict

VerdictSpec == VerdictInit /\ [][VerdictNext]_vars

\* ============================================================== properties
DenoiserOps ==
    {"reduce_noise_standard", "reduce_noise_wavelet", "multi_stage_denoising",
     "enhanced_multi_stage_denoising"}

Range(s) == {s[i] : i \in 1..Len(s)}
SetMax(S) == CHOOSE v \in S : \A w \in S : w <= v
Framed(x, sr) == ~frame_raises(x, FrameLength(sr), HopLength(sr))
Energies(x, sr) == frame_energy(frame(x, FrameLength(sr), HopLength(sr)))

\* sample i (from 0) lies in the interval [k*hop, k*hop + frame_length) of frame k (from 0)
InFrame(i, k, sr) ==
    k * HopLength(sr) <= i /\ i < k * HopLength(sr) + FrameLength(sr)

\* C1: every denoiser (standard in its spectral and its low-pass branch,
\* wavelet, multi-stage, enhanced with voice preservation on or off) that
\* returns a buffer returns exactly as many samples as it was given.
C1_LengthPreserved ==
    (op \in DenoiserOps /\ ret.outcome = "ok") => Len(ret.out) = Len(audio)

C1_Witness ==
    /\ op = "enhanced_multi_stage_denoising" /\ args.voice_preserve
    /\ ret.outcome = "ok" /\ ret.branch = "lowpass" /\ ret.window_size > 1
    /\ Len(audio) > 0 /\ Len(ret.out) = Len(audio)

\* C2: the verdict is true if and only if all six comparisons hold, each of
\* them inclusive at its threshold.
C2_Compliance ==
    op = "verdict" =>
        LET m == eval_ret.metrics
        IN  eval_ret.compliant <=>
              /\ m.rms_db.val >= standards.rms_db
              /\ m.peak_db.val <= standards.peak_db
              /\ m.cv.val <= standards.cv
              /\ m.snr.val >= standards.snr
              /\ m.non_speech_ratio.val <= standards.non_speech_ratio
              /\ m.max_silence.val <= standards.max_silence

C2_Witness ==
    /\ op = "verdict" /\ eval_ret.compliant
    /\ eval_ret.metrics.snr.val = standards.snr
    /\ eval_ret.metrics.rms_db.val = standards.rms_db
    /\ eval_ret.metrics.peak_db.val = standards.peak_db
    /\ eval_ret.metrics.cv.val = standards.cv
    /\ eval_ret.metrics.non_speech_ratio.val = standards.non_speech_ratio
    /\ eval_ret.metrics.max_silence.val = standards.max_silence

\* C3: the mask of NoiseReducer.detect_silence has one entry per sample, and
\* sample i is marked exactly when it lies in the interval of at least one
\* silent frame.
C3_SilenceMask ==
    (op = "detect_silence" /\ ret.outcome = "ok") =>
        LET fs == frame_silence(audio, sample_rate, args.threshold_db)
        IN  /\ Len(ret.out) = Len(audio)
            /\ \A i \in 0..(Len(audio) - 1) :
                 ret.out[i + 1] <=>
                    \E k \in 0..(Len(fs) - 1) : fs[k + 1] /\ InFrame(i, k, sample_rate)

\* a sample marked by a silent frame and also covered by a later frame that
\* is not silent
C3_Witness ==
    /\ op = "detect_silence" /\ ret.outcome = "ok"
    /\ LET fs == frame_silence(audio, sample_rate, args.threshold_db)
       IN  \E i \in 0..(Len(audio) - 1) : \E k \in 0..(Len(fs) - 1) :
             \E l \in 0..(Len(fs) - 1) :
               /\ k < l /\ fs[k + 1] /\ ~fs[l + 1]
               /\ InFrame(i, k, sample_rate) /\ InFrame(i, l, sample_rate)
               /\ ret.out[i + 1]

\* 10^(45/10) = 31622.7766016..., 10^(20/10) = 100
K10Int(threshold_db) == IF threshold_db = -45 THEN 31622 ELSE 100
K10Micro(threshold_db) == IF threshold_db = -45 THEN 776601 ELSE 0

\* 10*log10(p/q) < threshold_db, that is p * 10^(-threshold_db/10) < q
Db10Below(p, q, threshold_db) ==
    /\ p * K10Int(threshold_db) < q
    /\ p * K10Int(threshold_db) + (p * K10Micro(threshold_db)) \div 1000000 < q

\* C4: a frame is silent exactly when 10*log10(frame_energy / max_frame_energy)
\* is below the threshold: the reducer marks the samples of exactly those
\* frames and the evaluator counts exactly those frames.
C4_TenLogRule ==
    /\ (op = "detect_silence" /\ ret.outcome = "ok") =>
         LET e == Energies(audio, sample_rate)
         IN  \A i \in 0..(Len(audio) - 1) :
               ret.out[i + 1] <=>
                  \E k \in 0..(Len(e) - 1) :
                     /\ Db10Below(e[k + 1], SeqMax(e), args.threshold_db)
                     /\ InFrame(i, k, sample_rate)
    /\ (op = "evaluator_detect_silence" /\ eval_ret.outcome = "ok") =>
         LET e == Energies(audio, args.sr)
         IN  eval_ret.metrics.non_speech_ratio.num =
               Cardinality({k \in 1..Len(e) :
                              Db10Below(e[k], SeqMax(e), args.threshold_db)})

\* C5: multi_stage_denoising mixes with the mask of the original input:
\* 0.9 * stage2 on its silent samples, 0.6 * stage2 + 0.4 * original on the
\* others, with stage2 = wavelet(standard(original)).
C5_Mixing ==
    (op = "multi_stage_denoising" /\ ret.outcome = "ok") =>
        LET mask == NoiseReducer_detect_silence(audio, sample_rate, silence_threshold_db)
        IN  /\ ret.scale = 10
            /\ ret.stage1 = reduce_noise_standard(audio, sample_rate).out
            /\ ret.stage2 = reduce_noise_wavelet(ret.stage1).out
            /\ Len(ret.out) = Len(audio)
            /\ \A i \in 1..Len(audio) :
                 /\ mask[i] => ret.out[i] = 9 * ret.stage2[i]
                 /\ ~mask[i] => ret.out[i] = 6 * ret.stage2[i] + 4 * audio[i]

C5_Witness ==
    /\ op = "multi_stage_denoising" /\ ret.outcome = "ok"
    /\ \E i \in 1..Len(audio) : ret.mask[i] /\ ret.stage2[i] # 0
                                /\ ret.out[i] = 9 * ret.stage2[i]
    /\ \E i \in 1..Len(audio) : ~ret.mask[i] /\ ret.stage2[i] # 0 /\ audio[i] # 0
                                /\ ret.stage2[i] # audio[i]
                                /\ ret.out[i] = 6 * ret.stage2[i] + 4 * audio[i]

\* C6: reduce_noise_standard runs the spectral subtraction exactly when some
\* frame is silent and the low-pass filter exactly when none is, never both;
\* a buffer whose frames all have the same energy takes the low-pass branch.
C6_Branch ==
    (op = "reduce_noise_standard" /\ Framed(audio, sample_rate)) =>
        LET fs == frame_silence(audio, sample_rate, silence_threshold_db)
            e == Energies(audio, sample_rate)
            some == \E k \in 1..Len(fs) : fs[k]
        IN  /\ (ret.branch = "spectral") <=> some
            /\ (ret.branch = "lowpass") <=> ~some
            /\ ("stft" \in Range(ret.steps)) <=> some
            /\ ("butter" \in Range(ret.steps)) <=> ~some
            /\ (\A k \in 1..Len(e) : e[k] = e[1]) => ret.branch = "lowpass"

\* a constant buffer, long enough for the filter, that the low-pass returns
C6_Witness ==
    /\ op = "reduce_noise_standard" /\ ret.outcome = "ok"
    /\ ret.branch = "lowpass" /\ "filtfilt" \in Range(ret.steps)
    /\ \A i \in 1..Len(audio) : audio[i] = audio[1] /\ audio[i] # 0

\* C7: in the spectral branch every new magnitude lies between 0.01 times the
\* magnitude and the magnitude (magnitudes and noise profile non-negative).
C7_FloorLaw ==
    (op = "reduce_noise_standard" /\ ret.branch = "spectral" /\ ret.outcome = "ok") =>
        \A t \in 1..Len(ret.stft_mag) : \A b \in 1..NumBins :
            LET mag == ret.stft_mag[t][b]
                new == ret.masked_stft_mag[t][b]
            IN  /\ mag >= 0 /\ ret.noise_sum[b] >= 0
                /\ ret.noise_frames * mag <= new
                /\ new <= 100 * ret.noise_frames * mag

\* one bin held by the floor and one bin reduced by the noise profile
C7_Witness ==
    /\ op = "reduce_noise_standard" /\ ret.branch = "spectral" /\ ret.outcome = "ok"
    /\ \E t \in 1..Len(ret.stft_mag) : \E b \in 1..NumBins :
         /\ ret.stft_mag[t][b] > 0 /\ ret.noise_sum[b] > 0
         /\ ret.masked_stft_mag[t][b] = ret.noise_frames * ret.stft_mag[t][b]
    /\ \E t \in 1..Len(ret.stft_mag) : \E b \in 1..NumBins :
         /\ ret.noise_sum[b] > 0
         /\ ret.masked_stft_mag[t][b] > ret.noise_frames * ret.stft_mag[t][b]
         /\ ret.masked_stft_mag[t][b] < 100 * ret.noise_frames * ret.stft_mag[t][b]

\* the length of the longest run of consecutive silent frames
LongestRun(fs) ==
    SetMax({0} \cup
           {p[2] - p[1] + 1 : p \in {q \in (1..Len(fs)) \X (1..Len(fs)) :
                                      q[1] <= q[2] /\ \A k \in q[1]..q[2] : fs[k]}})

\* C8: the evaluator's non_speech_ratio is the number of silent frames over
\* the number of frames, and max_silence is L * hop_length / sample_rate for
\* the longest run L of silent frames, a run ending at the last frame included.
C8_SilenceStats ==
    (op = "evaluator_detect_silence" /\ eval_ret.outcome = "ok") =>
        LET fs == frame_silence(audio, args.sr, args.threshold_db)
            r == eval_ret.metrics.non_speech_ratio
            m == eval_ret.metrics.max_silence
        IN  /\ r.kind = "frac" /\ r.den # 0 /\ m.kind = "frac" /\ m.den # 0
            /\ r.num * Len(fs) = CountTrue(fs) * r.den
            /\ m.num * args.sr = LongestRun(fs) * HopLength(args.sr) * m.den

\* the longest run ends at the last frame and is longer than any run before
C8_Witness ==
    /\ op = "evaluator_detect_silence" /\ eval_ret.outcome = "ok"
    /\ LET fs == frame_silence(audio, args.sr, args.threshold_db)
       IN  /\ Len(fs) >= 3 /\ fs[Len(fs)] /\ fs[Len(fs) - 1] /\ ~fs[1]
           /\ eval_ret.metrics.max_silence.num >= 2 * HopLength(args.sr)

\* the metric has the value c/1000 (a ratio of two 32-bit integers is never
\* 10^10 or 10^-10, so a computed value is never +-100 dB)
ValueIs(m, c) ==
    CASE m.kind = "const" -> m.val = c
      [] m.kind = "log" -> IF Abs(c) >= 100000 THEN FALSE ELSE LE(m, c) /\ GE(m, c)
      [] m.kind \in {"frac", "sqrt"} -> LE(m, c) /\ GE(m, c)
      [] OTHER -> FALSE

AllFinite(metrics) ==
    /\ Finite(metrics.rms) /\ Finite(metrics.rms_db)
    /\ Finite(metrics.peak) /\ Finite(metrics.peak_db)
    /\ Finite(metrics.cv) /\ Finite(metrics.snr)
    /\ Finite(metrics.non_speech_ratio) /\ Finite(metrics.max_silence)

Degenerate(x) == \A i \in 1..Len(x) : x[i] = 0
AllEqual(x) == \A i \in 1..Len(x) : x[i] = x[1]

C10_FailFast ==
    /\ (op \in DenoiserOps /\ (Len(audio) = 0 \/ sample_rate <= 0)) =>
         (ret.outcome = "error" /\ ret.steps = <<>>)
    /\ (op = "evaluate_audio" /\ (Len(audio) = 0 \/ args.sr <= 0)) =>
         (eval_ret.outcome = "error" /\ eval_ret.steps = <<>>)

\* C13: no call changes a sample of the buffer it is given, and the array a
\* denoiser returns is not the array it was given: every in-place store of a
\* call goes to an array the call created.
C13_InputUntouched ==
    [][/\ audio' = audio
       /\ "audio_data" \notin ret'.written
       /\ (op' \in DenoiserOps /\ ret'.outcome = "ok") => ret'.ref # "audio_data"]_vars

\* multi_stage_denoising stored samples that differ from the caller's
C13_Witness ==
    /\ op = "multi_stage_denoising" /\ ret.outcome = "ok"
    /\ ret.written = {"mixed_audio"} /\ ret.ref = "mixed_audio"
    /\ \E i \in 1..Len(audio) : Trunc(ret.out[i], ret.scale) # audio[i]

\* C15 (Scenario B): for a buffer that is zero for its whole duration the
\* evaluator's silence detection returns non_speech_ratio = 1.0 and
\* max_silence = sample count / sample rate.
C15_ScenarioB ==
    (/\ op = "evaluator_detect_silence" /\ eval_ret.outcome = "ok"
     /\ Degenerate(audio) /\ args.threshold_db = silence_threshold_db) =>
        LET r == eval_ret.metrics.non_speech_ratio
            m == eval_ret.metrics.max_silence
        IN  /\ r.num = r.den
            /\ m.num * args.sr = Len(audio) * m.den

\* C16: when every frame energy is zero every frame is silent at the default
\* threshold, so the reducer marks every sample covered by a frame and the
\* evaluator counts every frame.
C16_SilentSentinel ==
    /\ (/\ op = "detect_silence" /\ ret.outcome = "ok"
        /\ Degenerate(audio) /\ args.threshold_db = silence_threshold_db) =>
          \A i \in 0..(Len(audio) - 1) :
            (\E k \in 0..(Len(Energies(audio, sample_rate)) - 1) :
                InFrame(i, k, sample_rate)) => ret.out[i + 1]
    /\ (/\ op = "evaluator_detect_silence" /\ eval_ret.outcome = "ok"
        /\ Degenerate(audio) /\ args.threshold_db = silence_threshold_db) =>
          eval_ret.metrics.non_speech_ratio.num = Len(Energies(audio, args.sr))

\* C17: with voice_preserve false, enhanced_multi_stage_denoising returns
\* what multi_stage_denoising returns for the same buffer and sample rate.
C17_NoPreserve ==
    (op = "enhanced_multi_stage_denoising" /\ ~args.voice_preserve) =>
        ret = multi_stage_denoising(audio, sample_rate)

\* a buffer for which the voice-preserving path returns something else
C17_Witness ==
    /\ op = "enhanced_multi_stage_denoising" /\ ~args.voice_preserve
    /\ ret.outcome = "ok" /\ ret.scale = 10
    /\ \E i \in 1..Len(audio) : ret.out[i] # 0
    /\ \E i \in 1..Len(audio) :
         enhanced_multi_stage_denoising(audio, sample_rate, TRUE).out[i]
            # 10 * HopLength(sample_rate) * ret.out[i]

DetBuffers == {<<100, 100, 5, 5>>, <<0, 5, 100, 100>>, <<5, 100>>, <<>>}

Calls ==
    DenoiserOps \cup {"detect_silence", "evaluate_audio", "evaluator_detect_silence"}

DetInit ==
    /\ sample_rate = 44100
    /\ standards = DefaultStandards
    /\ audio \in DetBuffers
    /\ op = "init"
    /\ args = NoArgs
    /\ ret = Blank
    /\ eval_ret = EvalBlank
    /\ other_standards = DefaultStandards
    /\ prev = NoCall
    /\ workers = <<>>
    /\ batch = NoBatch

\* the last call, its arguments and its result are kept
Remember ==
    /\ op \in Calls
    /\ prev' = [op |-> op, args |-> args, ret |-> ret, eval_ret |-> eval_ret]
    /\ UNCHANGED <<sample_rate, standards, audio, op, args, ret, eval_ret,
                   other_standards, workers, batch>>

DetNext ==
    \/ Next
    \/ Remember

DetSpec == DetInit /\ [][DetNext]_vars

\* C11: a call with the arguments of an earlier call on the same buffer
\* returns the result of the earlier call, whatever was called in between.
C11_Deterministic ==
    (prev.op = op /\ prev.args = args) =>
        (prev.ret = ret /\ prev.eval_ret = eval_ret)

\* ------------------------------------------------- files and process_file
MaxFiles == 3                   \* a batch holds at most MaxFiles files

\* self.config['methods']
Methods == <<"standard", "wavelet", "multi_stage", "enhanced_multi_stage">>

\* the method names given to process_file: the four of the configuration and
\* one that is none of them
MethodNames == Range(Methods) \cup {"spectral_gate"}

\* the audio files: the samples and the rate librosa.load returns for them,
\* whether librosa.load can read them and whether soundfile can write the
\* output path derived from their name
Files ==
    {[name |-> "a.wav", audio |-> <<100, 100, 5, 5>>, sr |-> 100,
      readable |-> TRUE, writable |-> TRUE],
     [name |-> "b.wav", audio |-> <<100, 100, 100, 100, 5, 5, 5, 5>>, sr |-> 200,
      readable |-> TRUE, writable |-> TRUE],
     [name |-> "c.wav", audio |-> <<100, 100>>, sr |-> 100,
      readable |-> TRUE, writable |-> TRUE],
     [name |-> "d.mp3", audio |-> <<>>, sr |-> 0,
      readable |-> FALSE, writable |-> TRUE],
     [name |-> "e.mp3", audio |-> <<5, 100>>, sr |-> 100,
      readable |-> TRUE, writable |-> FALSE],
     [name |-> "f.wav", audio |-> <<100, 5, 0>>, sr |-> 44100,
      readable |-> TRUE, writable |-> TRUE]}

\* the else branch replaced by the first method of the configuration
method_called_first(method) ==
    IF method \in Range(Methods) THEN method ELSE "standard"

\* the branch process_file takes for a method name
method_called(method) ==
    IF method \in Range(Methods) THEN method ELSE "enhanced_multi_stage"

\* the if / elif chain of process_file, with the NoiseReducer's sample_rate
dispatch(called, audio_data, sr) ==
    CASE called = "standard" -> reduce_noise_standard(audio_data, sr)
      [] called = "wavelet" -> reduce_noise_wavelet(audio_data)
      [] called = "multi_stage" -> multi_stage_denoising(audio_data, sr)
      [] OTHER -> enhanced_multi_stage_denoising(audio_data, sr, TRUE)

\* what process_file returns, or that it raised
NoProcessed == [outcome |-> "error", called |-> "none", processed |-> Blank, sr |-> 0]

DefaultSampleRate == 44100      \* NoiseReducer(sample_rate=44100)

\* the assignment left out: the denoiser reads the constructor's rate
noise_reducer_rate_default(sr, default) == default

\* self.noise_reducer.sample_rate = sr: the rate the denoiser reads afterwards
noise_reducer_rate(sr, default) == sr

\* process_file on a NoiseReducer nothing else uses
process_file(file, method) ==
    IF ~file.readable THEN NoProcessed
    ELSE LET r == dispatch(method_called(method), file.audio,
                           noise_reducer_rate(file.sr, DefaultSampleRate))
         IN  [outcome |-> r.outcome, called |-> method_called(method),
              processed |-> r, sr |-> file.sr]

\* ------------------------------------------- two workers, one NoiseReducer
Workers == {1, 2}

NewWorker(file, method) ==
    [pc |-> "load", file |-> file, method |-> method,
     audio_data |-> <<>>, sr |-> 0, processed |-> Blank]

\* each worker is given a file of its own and a method
WorkerInit ==
    /\ sample_rate = 44100
    /\ standards = DefaultStandards
    /\ audio = <<>>
    /\ op = "init"
    /\ args = NoArgs
    /\ ret = Blank
    /\ eval_ret = EvalBlank
    /\ other_standards = DefaultStandards
    /\ prev = NoCall
    /\ batch = NoBatch
    /\ workers \in [Workers -> {NewWorker(f, m) : f \in Files, m \in Range(Methods)}]
    /\ workers[1].file # workers[2].file

worker_frame == <<standards, audio, op, args, ret, eval_ret, other_standards,
                  prev, batch>>

\* audio_data, sr = librosa.load(audio_file, sr=None)
process_file_load(w) ==
    /\ workers[w].pc = "load"
    /\ workers' = [workers EXCEPT ![w] =
          IF workers[w].file.readable
          THEN [@ EXCEPT !.pc = "set_rate",
                         !.audio_data = workers[w].file.audio,
                         !.sr = workers[w].file.sr]
          ELSE [@ EXCEPT !.pc = "raised"]]
    /\ UNCHANGED sample_rate
    /\ UNCHANGED worker_frame

\* self.noise_reducer.sample_rate = sr
process_file_set_rate(w) ==
    /\ workers[w].pc = "set_rate"
    /\ sample_rate' = workers[w].sr
    /\ workers' = [workers EXCEPT ![w].pc = "denoise"]
    /\ UNCHANGED worker_frame

\* processed_audio = self.noise_reducer.<method>(audio_data); the method reads
\* self.sample_rate
process_file_denoise(w) ==
    /\ workers[w].pc = "denoise"
    /\ workers' = [workers EXCEPT ![w] =
          [@ EXCEPT !.pc = "done",
                    !.processed = dispatch(method_called(workers[w].method),
                                           workers[w].audio_data, sample_rate)]]
    /\ UNCHANGED sample_rate
    /\ UNCHANGED worker_frame

WorkerNext ==
    \E w \in Workers :
        \/ process_file_load(w)
        \/ process_file_set_rate(w)
        \/ process_file_denoise(w)

WorkerSpec == WorkerInit /\ [][WorkerNext]_vars

\* C12: under every interleaving of the two workers' steps, the buffer a
\* worker obtains for its file is the one process_file gives for that file
\* when nothing else uses the NoiseReducer.
C12_Isolated ==
    \A w \in Workers :
        workers[w].pc = "done" =>
            workers[w].processed = process_file(workers[w].file, workers[w].method).processed

\* --------------------------------------------------- two AudioEvaluators
\* the buffers and rates the two evaluators are given
StandardsBuffers == {<<100, 100, 100>>, <<100, 100, 5, 5>>, <<5, 5>>, <<>>}
StandardsRates == {100, 200}

\* the values a caller stores into self.standards, next to the defaults
Overrides ==
    [rms_db |-> -10000, peak_db |-> -30000, cv |-> 0, snr |-> 30000,
     non_speech_ratio |-> 0, max_silence |-> 0]

\* one dict held by the class
standards_dict_shared(instance) == "AudioEvaluator"

\* self.standards = {...} in __init__: the dict an instance holds is built by
\* its own constructor call
standards_dict(instance) == instance

StandardsInit ==
    /\ sample_rate = 44100
    /\ standards = DefaultStandards
    /\ other_standards = DefaultStandards
    /\ audio \in StandardsBuffers
    /\ op = "init"
    /\ args = NoArgs
    /\ ret = Blank
    /\ eval_ret = EvalBlank
    /\ prev = NoCall
    /\ workers = <<>>
    /\ batch = NoBatch

\* evaluator.standards[key] = value, on the first evaluator
override_standard(key, value) ==
    /\ standards' = [standards EXCEPT ![key] = value]
    /\ other_standards' =
         IF standards_dict("other") = standards_dict("evaluator")
         THEN standards' ELSE other_standards
    /\ op' = "override_standard"
    /\ args' = NoArgs
    /\ eval_ret' = EvalBlank
    /\ UNCHANGED <<sample_rate, audio, ret, prev, workers, batch>>

\* evaluate_audio on the second evaluator
other_evaluate_audio(sr) ==
    /\ op' = "other_evaluate_audio"
    /\ args' = [NoArgs EXCEPT !.sr = sr]
    /\ eval_ret' = evaluate_audio(audio, sr, other_standards)
    /\ UNCHANGED <<sample_rate, standards, audio, ret>>
    /\ UNCHANGED runner_vars

StandardsNext ==
    \/ \E key \in DOMAIN Overrides :
         \E value \in {Overrides[key], DefaultStandards[key]} :
            override_standard(key, value)
    \/ \E sr \in StandardsRates : CallEvaluate(sr)
    \/ \E sr \in StandardsRates : other_evaluate_audio(sr)

StandardsSpec == StandardsInit /\ [][StandardsNext]_vars

\* C14: evaluate_audio leaves the thresholds of both evaluators as they
\* were; a threshold stored into the first evaluator never changes the
\* thresholds of the second; the verdict of each evaluator is the one its own
\* thresholds give, so the second evaluator keeps giving the verdict of the
\* defaults.
C14_OwnStandards ==
    [][/\ op' \in {"evaluate_audio", "other_evaluate_audio"} =>
            (standards' = standards /\ other_standards' = other_standards)
       /\ op' = "override_standard" => other_standards' = other_standards
       /\ (op' = "evaluate_audio" /\ eval_ret'.outcome = "ok") =>
            eval_ret'.compliant = compliant(eval_ret'.metrics, standards)
       /\ (op' = "other_evaluate_audio" /\ eval_ret'.outcome = "ok") =>
            eval_ret'.compliant = compliant(eval_ret'.metrics, DefaultStandards)]_vars

\* the second evaluator accepts a buffer that the first, with a threshold
\* overridden, rejects
C14_Witness ==
    /\ op = "other_evaluate_audio"
    /\ eval_ret.outcome = "ok"
    /\ eval_ret.compliant
    /\ standards # DefaultStandards
    /\ ~compliant(eval_ret.metrics, standards)

\* ------------------------------------------- run_experiment, compare_methods
\* lrint: a / b rounded to the nearest integer, ties to even (b > 0)
Round(a, b) ==
    LET q == Trunc(a, b)
        r == Abs(a) - Abs(q) * b
        away == IF a < 0 THEN q - 1 ELSE q + 1
    IN  IF 2 * r > b \/ (2 * r = b /\ q % 2 = 1) THEN away ELSE q

\* one sample as soundfile stores it in a 16-bit file: clipped to full scale
\* and quantised, here on the grid of thousandths
pcm16(v, scale) == Max(-1000, Min(1000, Round(v, scale)))

\* the samples read back from the file sf.write(output_file, processed_audio, sr)
\* wrote
sf_write(r) == Tuple([i \in 1..Len(r.out) |-> pcm16(r.out[i], r.scale)])

\* metric > 0 as Python evaluates it for rms, peak and cv
positive(m) ==
    CASE m.kind = "const" -> m.val > 0
      [] m.kind = "frac" -> m.num * m.den > 0
      [] m.kind = "sqrt" -> m.num > 0 /\ m.den > 0
      [] OTHER -> FALSE

\* the percentage taken without the test of the original metric
relative_improvement_unguarded(processed, original) ==
    [kind |-> "percent", processed |-> processed, original |-> original]

\* (processed - original) / original * 100 if original > 0 else 0
relative_improvement(processed, original) ==
    IF positive(original)
    THEN [kind |-> "percent", processed |-> processed, original |-> original]
    ELSE NoImprovement

\* the result dictionary, from the two evaluations
analyze_from(o, p, filename) ==
    IF o.outcome = "error" \/ p.outcome = "error"
    THEN [outcome |-> "error", result |-> NoResult]
    ELSE [outcome |-> "ok",
          result |->
            [filename |-> filename,
             original_compliant |-> o.compliant,
             processed_compliant |-> p.compliant,
             original |-> o.metrics, processed |-> p.metrics,
             rms_improvement |-> relative_improvement(p.metrics.rms, o.metrics.rms),
             peak_improvement |-> relative_improvement(p.metrics.peak, o.metrics.peak),
             snr_improvement |-> [kind |-> "difference", processed |-> p.metrics.snr,
                                  original |-> o.metrics.snr],
             cv_improvement |-> relative_improvement(p.metrics.cv, o.metrics.cv)]]

\* both buffers cut to the shorter length and evaluated at the original's rate
analyze_cut(original_audio, processed_audio, min_len, file, stds) ==
    analyze_from(evaluate_audio(SubSeq(original_audio, 1, min_len), file.sr, stds),
                 evaluate_audio(SubSeq(processed_audio, 1, min_len), file.sr, stds),
                 file.name)

analyze_audio_pair(file, processed_audio, stds) ==
    analyze_cut(file.audio, processed_audio,
                Min(Len(file.audio), Len(processed_audio)), file, stds)

\* the try block after process_file and sf.write
try_analysed(attempt, analysis) ==
    IF analysis.outcome = "error"
    THEN [attempt EXCEPT !.outcome = "error", !.stage = "analyze_audio_pair"]
    ELSE [attempt EXCEPT !.outcome = "ok", !.stage = "append",
                         !.result = analysis.result]

\* the try block after process_file
try_from(pf, file, method, stds) ==
    LET attempt == [NoAttempt EXCEPT !.file = file, !.method = method,
                                     !.called = pf.called,
                                     !.processed = pf.processed, !.sr = pf.sr]
    IN  IF pf.outcome = "error"
        THEN [attempt EXCEPT !.outcome = "error", !.stage = "process_file"]
        ELSE IF ~file.writable
        THEN [attempt EXCEPT !.outcome = "error", !.stage = "sf.write"]
        ELSE try_analysed(attempt,
                 analyze_audio_pair(file, sf_write(pf.processed), stds))

\* the try block of the two batch loops for one file
try_body(file, method, stds) ==
    try_from(process_file(file, method), file, method, stds)

\* the lists of at most n different files
RECURSIVE FileListsUpTo(_)
FileListsUpTo(n) ==
    IF n = 0 THEN {<<>>}
    ELSE LET shorter == FileListsUpTo(n - 1)
             longest == {x \in shorter : Len(x) = n - 1}
         IN  shorter \cup
             {Append(q[1], q[2]) :
                 q \in {x \in longest \X Files : x[2] \notin Range(x[1])}}

FileLists == FileListsUpTo(MaxFiles)

BatchInit ==
    /\ sample_rate = 44100
    /\ standards = DefaultStandards
    /\ other_standards = DefaultStandards
    /\ audio = <<>>
    /\ op = "init"
    /\ args = NoArgs
    /\ ret = Blank
    /\ eval_ret = EvalBlank
    /\ prev = NoCall
    /\ workers = <<>>
    /\ batch = NoBatch

batch_frame == <<standards, audio, op, args, ret, eval_ret, other_standards,
                 prev, workers>>

\* the loop left at the first failure
next_file_abort(file_idx, outcome, n) ==
    IF outcome = "error" THEN n + 1 ELSE file_idx + 1

\* the for statement: the next file, whatever the try block did
next_file(file_idx, outcome, n) == file_idx + 1

\* one pass of a batch loop: the try block for the file at file_idx, then the
\* except clause if it raised
loop_pass(file, attempt) ==
    /\ batch' = [batch EXCEPT
          !.file_idx = next_file(@, attempt.outcome, Len(batch.files)),
          !.results = IF attempt.outcome = "ok" THEN Append(@, attempt.result) ELSE @,
          !.compliance_count =
              IF attempt.outcome = "ok" /\ attempt.result.processed_compliant
              THEN @ + 1 ELSE @,
          !.log = IF attempt.outcome = "error" THEN Append(@, file.name) ELSE @,
          !.attempts = Append(@, <<attempt.method, file.name>>),
          !.last = attempt]
    /\ sample_rate' = IF file.readable THEN file.sr ELSE sample_rate
    /\ UNCHANGED batch_frame

\* the records of the last run left in place
results_kept(results) == results

\* self.results = []
results_cleared(results) == <<>>

\* run_experiment up to its loop, called on a runner that is in no loop: the
\* files found in input_dir, self.results emptied; None when no file is
\* found, before self.results is touched. previous is self.results as the
\* call found it.
run_experiment(files, method) ==
    /\ batch.mode \in {"idle", "returned"}
    /\ batch' =
         IF files = <<>>
         THEN [NoBatch EXCEPT !.mode = "returned", !.entry = "run_experiment",
                              !.methods = <<method>>, !.returned = "None",
                              !.results = batch.results,
                              !.previous = batch.results]
         ELSE [NoBatch EXCEPT !.mode = "run_experiment", !.entry = "run_experiment",
                              !.methods = <<method>>, !.files = files,
                              !.method_idx = 1, !.file_idx = 1,
                              !.results = results_cleared(batch.results),
                              !.previous = batch.results]
    /\ UNCHANGED sample_rate
    /\ UNCHANGED batch_frame

run_experiment_file ==
    /\ batch.mode = "run_experiment"
    /\ batch.file_idx <= Len(batch.files)
    /\ loop_pass(batch.files[batch.file_idx],
                 try_body(batch.files[batch.file_idx], batch.methods[1], standards))

\* after the loop: the DataFrame of self.results, or None without results
run_experiment_return ==
    /\ batch.mode = "run_experiment"
    /\ batch.file_idx > Len(batch.files)
    /\ batch' = [batch EXCEPT
          !.mode = "returned",
          !.returned = IF batch.results # <<>> THEN "results_df" ELSE "None",
          !.table = IF batch.results # <<>> THEN batch.results ELSE <<>>]
    /\ UNCHANGED sample_rate
    /\ UNCHANGED batch_frame

\* compare_methods up to its loops
compare_methods(input_files) ==
    /\ batch.mode = "idle"
    /\ batch' = [NoBatch EXCEPT !.mode = "compare_methods",
                                !.entry = "compare_methods",
                                !.methods = Methods, !.files = input_files,
                                !.method_idx = 1, !.file_idx = 1]
    /\ UNCHANGED sample_rate
    /\ UNCHANGED batch_frame

compare_methods_file ==
    /\ batch.mode = "compare_methods"
    /\ batch.method_idx <= Len(batch.methods)
    /\ batch.file_idx <= Len(batch.files)
    /\ loop_pass(batch.files[batch.file_idx],
                 try_body(batch.files[batch.file_idx],
                          batch.methods[batch.method_idx], standards))

\* the row of comparison_results for one method
comparison_row(method, method_results, compliance_count) ==
    [method |-> method, improvements |-> method_results,
     compliance_rate |-> Frac(compliance_count, Len(method_results))]

\* after the inner loop: the row of the method if it has results, then
\* method_results and compliance_count of the next method
compare_methods_method ==
    /\ batch.mode = "compare_methods"
    /\ batch.method_idx <= Len(batch.methods)
    /\ batch.file_idx > Len(batch.files)
    /\ batch' = [batch EXCEPT
          !.comparison =
              IF batch.results # <<>>
              THEN Append(@, comparison_row(batch.methods[batch.method_idx],
                                            batch.results, batch.compliance_count))
              ELSE @,
          !.method_idx = @ + 1, !.file_idx = 1,
          !.results = <<>>, !.compliance_count = 0]
    /\ UNCHANGED sample_rate
    /\ UNCHANGED batch_frame

compare_methods_return ==
    /\ batch.mode = "compare_methods"
    /\ batch.method_idx > Len(batch.methods)
    /\ batch' = [batch EXCEPT !.mode = "returned", !.returned = "comparison_df"]
    /\ UNCHANGED sample_rate
    /\ UNCHANGED batch_frame

BatchNext ==
    \/ \E files \in FileLists, method \in MethodNames :
          batch.mode = "idle" /\ run_experiment(files, method)
    \/ run_experiment_file
    \/ run_experiment_return
    \/ \E input_files \in FileLists : compare_methods(input_files)
    \/ compare_methods_file
    \/ compare_methods_method
    \/ compare_methods_return

BatchSpec == BatchInit /\ [][BatchNext]_vars

\* C18: for the file a batch loop has just passed to process_file, the
\* denoiser that ran is the one the method names, applied once to the file's
\* samples at the file's rate; any other name gives the result of
\* enhanced_multi_stage_denoising with voice preservation; the rate returned
\* is the file's.
C18_Dispatch ==
    LET a == batch.last
        f == a.file
    IN  (a.outcome # "none" /\ f.readable) =>
          /\ a.method = "standard" =>
                a.processed = reduce_noise_standard(f.audio, f.sr)
          /\ a.method = "wavelet" =>
                a.processed = reduce_noise_wavelet(f.audio)
          /\ a.method = "multi_stage" =>
                a.processed = multi_stage_denoising(f.audio, f.sr)
          /\ a.method = "enhanced_multi_stage" =>
                a.processed = enhanced_multi_stage_denoising(f.audio, f.sr, TRUE)
          /\ a.method \notin Range(Methods) =>
                a.processed = enhanced_multi_stage_denoising(f.audio, f.sr, TRUE)
          /\ a.sr = f.sr
          /\ sample_rate = f.sr

\* a name outside the four ran the voice-preserving branch to its end
C18_Witness ==
    /\ batch.last.method \notin Range(Methods) \cup {"none"}
    /\ batch.last.processed.outcome = "ok"
    /\ batch.last.processed.steps # multi_stage_denoising(batch.last.file.audio,
                                                          batch.last.file.sr).steps
    /\ batch.last.sr = 200

\* the result records of the first k files of a list, for one method
RECURSIVE OkResults(_, _, _)
OkResults(files, method, k) ==
    IF k = 0 THEN <<>>
    ELSE LET a == try_body(files[k], method, DefaultStandards)
         IN  IF a.outcome = "ok"
             THEN Append(OkResults(files, method, k - 1), a.result)
             ELSE OkResults(files, method, k - 1)

\* the k-th pass of a batch over n files: its method and its file
PassMethod(k, n) == batch.methods[((k - 1) \div n) + 1]
PassFile(k, n) == batch.files[((k - 1) % n) + 1]

\* the names reported among the first k passes
RECURSIVE Reported(_, _)
Reported(k, n) ==
    IF k = 0 THEN <<>>
    ELSE IF try_body(PassFile(k, n), PassMethod(k, n), DefaultStandards).outcome = "error"
         THEN Append(Reported(k - 1, n), PassFile(k, n).name)
         ELSE Reported(k - 1, n)

\* C19: in both batch loops the passes made so far are the files in order,
\* one pass per file and method, whatever failed; the failures are the ones
\* reported; the result records kept are those of the files that succeed,
\* each equal to the record the file yields by itself; at the return every
\* file had its pass for every method.
C19_BatchContinues ==
    LET n == Len(batch.files)
        passes == IF batch.mode = "returned" THEN Len(batch.methods) * n
                  ELSE (batch.method_idx - 1) * n + batch.file_idx - 1
    IN  batch.mode # "idle" =>
          /\ Len(batch.attempts) = passes
          /\ \A k \in 1..passes :
                batch.attempts[k] = <<PassMethod(k, n), PassFile(k, n).name>>
          /\ batch.log = Reported(passes, n)
          /\ batch.mode = "run_experiment" =>
                batch.results = OkResults(batch.files, batch.methods[1],
                                          batch.file_idx - 1)
          /\ (batch.mode = "returned" /\ batch.entry = "run_experiment") =>
                batch.results = OkResults(batch.files, batch.methods[1], n)
          /\ (batch.mode = "compare_methods"
                /\ batch.method_idx <= Len(batch.methods)) =>
                batch.results = OkResults(batch.files,
                                          batch.methods[batch.method_idx],
                                          batch.file_idx - 1)
          /\ \A r \in Range(batch.comparison) :
                r.improvements = OkResults(batch.files, r.method, n)

\* a batch that returned with a failure reported for one file and a result
\* record kept for a file after it
C19_Witness ==
    /\ batch.mode = "returned"
    /\ batch.entry = "run_experiment"
    /\ \E i, j \in 1..Len(batch.files) :
          /\ i < j
          /\ batch.files[i].name \in Range(batch.log)
          /\ \E r \in Range(batch.results) : r.filename = batch.files[j].name

\* C21: whatever files a batch processed before, the silence mask and the
\* smoothing window of the file just processed are those of the file's own
\* sample rate, the framing fails only when it fails at that rate, and the
\* NoiseReducer holds that rate.
C21_OwnRate ==
    LET a == batch.last
        f == a.file
    IN  (a.outcome # "none" /\ f.readable) =>
          /\ sample_rate = f.sr
          /\ a.called # "wavelet" =>
                (a.processed.steps = <<>>
                    <=> frame_raises(f.audio, FrameLength(f.sr), HopLength(f.sr)))
          /\ (a.processed.outcome = "ok"
                /\ "detect_silence" \in Range(a.processed.steps)) =>
                a.processed.mask =
                    NoiseReducer_detect_silence(f.audio, f.sr, silence_threshold_db)
          /\ "convolve" \in Range(a.processed.steps) =>
                a.processed.window_size = HopLength(f.sr)

\* the second file of a batch has another rate than the first and went
\* through the smoothing with its own window
C21_Witness ==
    /\ Len(batch.attempts) = 2
    /\ batch.files[1].readable
    /\ batch.files[1].sr # batch.last.file.sr
    /\ batch.last.file = batch.files[2]
    /\ "convolve" \in Range(batch.last.processed.steps)
    /\ batch.last.processed.window_size = HopLength(batch.last.file.sr)
    /\ HopLength(batch.files[1].sr) # HopLength(batch.last.file.sr)

\* --------------------------------------- the two silence detectors compared
\* the thresholds given to the two detectors: the default, one above it and
\* the largest that lets a frame be silent at all
SilenceThresholds == {-45, -20, 0}

SilenceNext ==
    \/ \E sr \in Rates : set_sample_rate(sr)
    \/ \E t \in SilenceThresholds : CallDetectSilence(t)
    \/ \E sr \in Rates, t \in SilenceThresholds : CallEvaluatorDetectSilence(sr, t)

SilenceSpec == Init /\ [][SilenceNext]_vars

\* the samples covered by the n frames of a buffer: indices (from 0) below
\* (n - 1) * hop_length + frame_length
Covered(n, sr) == 0..((n - 1) * HopLength(sr) + FrameLength(sr) - 1)

\* C22 as stated: for every threshold at or below 0 dB some frame is not
\* silent, the evaluator's ratio is below 1 and its longest run is shorter
\* than the number of frames, and the mask of NoiseReducer.detect_silence is
\* false on some covered sample.
C22_NeverAllSilent ==
    /\ (op = "evaluator_detect_silence" /\ eval_ret.outcome = "ok") =>
          LET fs == frame_silence(audio, args.sr, args.threshold_db)
              r == eval_ret.metrics.non_speech_ratio
              m == eval_ret.metrics.max_silence
          IN  /\ \E k \in 1..Len(fs) : ~fs[k]
              /\ r.num < r.den
              /\ m.num * args.sr < Len(fs) * HopLength(args.sr) * m.den
    /\ (op = "detect_silence" /\ ret.outcome = "ok") =>
          LET fs == frame_silence(audio, sample_rate, args.threshold_db)
          IN  /\ \E k \in 1..Len(fs) : ~fs[k]
              /\ \E i \in Covered(Len(fs), sample_rate) : ~ret.out[i + 1]

\* C22, amended: the same, with the statement about the mask of
\* NoiseReducer.detect_silence kept for thresholds at or below -20 dB only;
\* nearer to 0 dB the frames overlapping the loudest frame can all be silent
\* and cover it.
C22_MaxFrameVoiced ==
    /\ (op = "evaluator_detect_silence" /\ eval_ret.outcome = "ok") =>
          LET fs == frame_silence(audio, args.sr, args.threshold_db)
              r == eval_ret.metrics.non_speech_ratio
              m == eval_ret.metrics.max_silence
          IN  /\ \E k \in 1..Len(fs) : ~fs[k]
              /\ r.num < r.den
              /\ m.num * args.sr < Len(fs) * HopLength(args.sr) * m.den
    /\ (op = "detect_silence" /\ ret.outcome = "ok") =>
          LET fs == frame_silence(audio, sample_rate, args.threshold_db)
          IN  /\ \E k \in 1..Len(fs) : ~fs[k]
              /\ args.threshold_db <= -20 =>
                    \E i \in Covered(Len(fs), sample_rate) : ~ret.out[i + 1]

\* at the default threshold two of three frames are silent and the mask is
\* false on the samples only the loudest frame covers
C22_Witness ==
    /\ op = "detect_silence" /\ ret.outcome = "ok"
    /\ args.threshold_db = -45
    /\ LET fs == frame_silence(audio, sample_rate, args.threshold_db)
       IN  /\ Len(fs) = 3
           /\ CountTrue(fs) = 2
           /\ CountTrue(ret.out) < Len(ret.out)

\* ------------------------------------- buffers that end in a partial frame
TailLen == 5                    \* length of the buffers with one sample of tail

\* every buffer of TailLen samples, and three of seven samples: at rate 200
\* (frames of 4 samples every 2) the last sample of each lies in no frame
TailBuffers ==
    {b \in SeqsUpTo(TailLen) : Len(b) = TailLen}
    \cup {<<100, 100, 0, 0, 0, 0, 100>>, <<100, 100, 0, 0, 0, 0, 0>>,
          <<0, 0, 0, 0, 100, 100, 5>>}

TailRates == {100, 200}

TailInit ==
    /\ sample_rate = 44100
    /\ standards = DefaultStandards
    /\ audio \in TailBuffers
    /\ op = "init"
    /\ args = NoArgs
    /\ ret = Blank
    /\ eval_ret = EvalBlank
    /\ other_standards = DefaultStandards
    /\ prev = NoCall
    /\ workers = <<>>
    /\ batch = NoBatch

TailNext ==
    \/ \E sr \in TailRates : set_sample_rate(sr)
    \/ \E t \in ThresholdsDb : CallDetectSilence(t)
    \/ CallMultiStage
    \/ \E vp \in BOOLEAN : CallEnhanced(vp)

TailSpec == TailInit /\ [][TailNext]_vars

\* the number of frames of a buffer of N samples
FrameCount(N, sr) == 1 + (N - FrameLength(sr)) \div HopLength(sr)

\* the first index (from 0) that no frame covers
TailStart(N, sr) == (FrameCount(N, sr) - 1) * HopLength(sr) + FrameLength(sr)

\* C23: the frames are 1 + (N - frame_length) div hop_length in number; every
\* sample before the tail lies in one of them; the mask of detect_silence is
\* false on every sample of the tail; multi_stage_denoising and the enhanced
\* blend give the tail the weights of voiced samples.
C23_Tail ==
    LET N == Len(audio)
        t == TailStart(N, sample_rate)
    IN  /\ (op = "detect_silence" /\ ret.outcome = "ok") =>
              /\ Len(frame_silence(audio, sample_rate, args.threshold_db))
                    = FrameCount(N, sample_rate)
              /\ t <= N
              /\ \A i \in 0..(t - 1) :
                    \E k \in 0..(FrameCount(N, sample_rate) - 1) :
                        InFrame(i, k, sample_rate)
              /\ \A i \in t..(N - 1) :
                    /\ ~ret.out[i + 1]
                    /\ \A k \in 0..(FrameCount(N, sample_rate) - 1) :
                          ~InFrame(i, k, sample_rate)
        /\ (op = "multi_stage_denoising" /\ ret.outcome = "ok") =>
              \A i \in t..(N - 1) :
                  ret.out[i + 1] = 6 * ret.stage2[i + 1] + 4 * audio[i + 1]
        /\ (op = "enhanced_multi_stage_denoising" /\ ret.outcome = "ok"
              /\ args.voice_preserve) =>
              \A i \in t..(N - 1) :
                  /\ ret.base[i + 1] = 6 * ret.stage2[i + 1] + 4 * audio[i + 1]
                  /\ ret.blended[i + 1] = 7 * ret.base[i + 1] + 30 * audio[i + 1]

\* a tail sample of zero amplitude that follows a silent frame and is not
\* marked
C23_Witness ==
    /\ op = "detect_silence" /\ ret.outcome = "ok"
    /\ TailStart(Len(audio), sample_rate) < Len(audio)
    /\ audio[Len(audio)] = 0
    /\ ret.out[Len(audio) - 1]
    /\ ~ret.out[Len(audio)]

\* ------------------------------------------ buffers with negative samples
SignedAmp == {-100, -5, 0, 5, 100}

\* every buffer of at most MaxLen samples of either sign
SignedBuffers == UNION {[1..n -> SignedAmp] : n \in 0..MaxLen}

SignedInit ==
    /\ sample_rate = 44100
    /\ standards = DefaultStandards
    /\ audio \in SignedBuffers
    /\ op = "init"
    /\ args = NoArgs
    /\ ret = Blank
    /\ eval_ret = EvalBlank
    /\ other_standards = DefaultStandards
    /\ prev = NoCall
    /\ workers = <<>>
    /\ batch = NoBatch

SignedNext == \E sr \in StandardsRates : CallEvaluate(sr)

SignedSpec == SignedInit /\ [][SignedNext]_vars

\* n^3 times the power of the buffer with its mean removed
NoisePowerN3(x) ==
    SeqSum([i \in 1..Len(x) |->
        (Len(x) * x[i] - SeqSum(x)) * (Len(x) * x[i] - SeqSum(x))])

\* the ratio a / b in lowest terms
InLowestTerms(a, b) == <<a \div GCD(a, b), b \div GCD(a, b)>>

\* C24: the snr of evaluate_audio is 10*log10 of the power of the buffer over
\* the power of the buffer with its mean removed, or the sentinel; it is never
\* below 0; for a buffer that is not constant it is 0 exactly when the mean is
\* 0, and such a buffer is not compliant under the default standard.
C24_SnrFloor ==
    (op = "evaluate_audio" /\ eval_ret.outcome = "ok") =>
        LET snr == eval_ret.metrics.snr
            n == Len(audio)
        IN  /\ GE(snr, 0)
            /\ ~AllEqual(audio) =>
                  /\ snr.kind = "log"
                  /\ InLowestTerms(snr.num, snr.den)
                        = InLowestTerms(SeqSum(Squares(audio)) * n * n,
                                        NoisePowerN3(audio))
                  /\ snr.num >= snr.den
                  /\ (snr.num = snr.den) <=> (SeqSum(audio) = 0)
                  /\ SeqSum(audio) = 0 => ~eval_ret.compliant

\* a buffer of mean zero that passes every comparison but the one of the snr
C24_Witness ==
    /\ op = "evaluate_audio" /\ eval_ret.outcome = "ok"
    /\ ~AllEqual(audio) /\ SeqSum(audio) = 0
    /\ eval_ret.metrics.snr.num = eval_ret.metrics.snr.den
    /\ ~eval_ret.compliant
    /\ compliant([eval_ret.metrics EXCEPT !.snr = Const1000(DefaultStandards.snr)],
                 DefaultStandards)

\* C25: with voice preservation the buffer before the smoothing is
\* 0.9 * base on the samples silent in the original input and
\* 0.7 * base + 0.3 * original on the others, with the mask of the multi-stage
\* mixing; in terms of the second stage that is 0.81 * stage2 on silent
\* samples and 0.42 * stage2 + 0.58 * original on the others.
C25_Blend ==
    (op = "enhanced_multi_stage_denoising" /\ ret.outcome = "ok"
        /\ args.voice_preserve) =>
        LET mask == NoiseReducer_detect_silence(audio, sample_rate, silence_threshold_db)
        IN  /\ ret.mask = mask
            /\ ret.base = multi_stage_denoising(audio, sample_rate).out
            /\ Len(ret.blended) = Len(audio)
            /\ \A i \in 1..Len(audio) :
                 /\ mask[i] => /\ ret.blended[i] = 9 * ret.base[i]
                               /\ ret.blended[i] = 81 * ret.stage2[i]
                 /\ ~mask[i] => /\ ret.blended[i] = 7 * ret.base[i] + 30 * audio[i]
                                /\ ret.blended[i] = 42 * ret.stage2[i] + 58 * audio[i]

\* a silent and a voiced sample, each with a second-stage value that is not
\* zero and differs from the original
C25_Witness ==
    /\ op = "enhanced_multi_stage_denoising" /\ ret.outcome = "ok"
    /\ args.voice_preserve
    /\ \E i \in 1..Len(audio) : ret.mask[i] /\ ret.stage2[i] # 0 /\ audio[i] # 0
                                /\ ret.blended[i] = 81 * ret.stage2[i]
    /\ \E i \in 1..Len(audio) : ~ret.mask[i] /\ ret.stage2[i] # 0 /\ audio[i] # 0
                                /\ ret.stage2[i] # audio[i]
                                /\ ret.blended[i] = 42 * ret.stage2[i] + 58 * audio[i]

\* ------------------------------------------ smoothing windows of 1 to 4
\* the rates whose 10 ms window is 1, 2, 3 and 4 samples
SmoothRates == {100, 200, 300, 400}

SmoothNext ==
    \/ \E sr \in SmoothRates : set_sample_rate(sr)
    \/ \E vp \in BOOLEAN : CallEnhanced(vp)

SmoothSpec == Init /\ [][SmoothNext]_vars

\* the window of W positions around position k (from 1): W div 2 positions
\* before k, k itself, and the rest after k
Window(k, W) == (k - W \div 2)..(k - W \div 2 + W - 1)

\* the sum of the samples of x at the positions of S that lie in the buffer
SumOver(x, S) ==
    SeqSum([j \in 1..Len(x) |-> IF j \in S THEN x[j] ELSE 0])

\* C26: the smoothed buffer has the input's length; sample k is the sum of
\* the blended samples in the window of W = int(0.01 * sample_rate) positions
\* centred on k, positions outside the buffer counting as zero, divided by W;
\* a sample whose window lies in the buffer on equal blended values keeps its
\* value; a sample whose window reaches beyond an end sums only the part
\* inside.
C26_Smoothing ==
    (op = "enhanced_multi_stage_denoising" /\ ret.outcome = "ok"
        /\ args.voice_preserve) =>
        LET W == HopLength(sample_rate)
            N == Len(audio)
        IN  /\ ret.window_size = W
            /\ ret.scale = 100 * W
            /\ Len(ret.out) = N
            /\ \A k \in 1..N :
                 /\ ret.out[k] = SumOver(ret.blended, Window(k, W))
                 /\ (Window(k, W) \subseteq 1..N
                       /\ \A j \in Window(k, W) : ret.blended[j] = ret.blended[k]) =>
                       ret.out[k] = W * ret.blended[k]
                 /\ ~(Window(k, W) \subseteq 1..N) =>
                       ret.out[k] = SumOver(ret.blended, Window(k, W) \cap 1..N)

\* a window of three samples: an interior sample between two equal ones keeps
\* its value, and the first sample is the sum of the two positions of its
\* window that lie in the buffer
C26_Witness ==
    /\ op = "enhanced_multi_stage_denoising" /\ ret.outcome = "ok"
    /\ args.voice_preserve
    /\ ret.window_size = 3
    /\ \E k \in 2..(Len(audio) - 1) :
          /\ ret.blended[k] # 0
          /\ ret.blended[k - 1] = ret.blended[k]
          /\ ret.blended[k + 1] = ret.blended[k]
          /\ ret.out[k] = 3 * ret.blended[k]
    /\ ret.blended[1] # 0
    /\ ret.blended[2] # 0
    /\ ret.out[1] = ret.blended[1] + ret.blended[2]

\* ------------------------------------------------- the wavelet guards

\* no coefficient of the decomposition is larger in absolute value than the
\* threshold
NoneAbove(coeffs) ==
    \A a \in 1..Len(coeffs) : \A i \in 1..Len(coeffs[a]) :
        ~above_threshold(coeffs[a][i], Median2(coeffs))

AllZero(values) == \A i \in 1..Len(values) : values[i] = 0

\* C27: reduce_noise_wavelet divides only by a nonzero peak and a nonzero
\* energy. When no coefficient exceeds the threshold the reconstruction is
\* zero throughout; whenever the reconstruction is zero throughout it is left
\* as the mean over the widths (no division by the peak), no rescale factor
\* is applied, and the output is a zero buffer of the input's length.
C27_WaveletGuards ==
    (op = "reduce_noise_wavelet" /\ ret.outcome = "ok") =>
        /\ NoneAbove(cwt(audio, NumScales)) => AllZero(ret.normalised)
        /\ AllZero(ret.normalised) =>
              /\ ret.norm_den = NumScales
              /\ ret.gain = [num |-> Frac(1, 1), den |-> Frac(1, 1)]
              /\ ret.out = Const(Len(audio), 0)
        /\ ~AllZero(ret.normalised) =>
              /\ ret.norm_den = SeqMax(AbsSeq(ret.normalised))
              /\ ret.norm_den > 0
              /\ ret.gain.den = mean_square(ret.normalised, ret.norm_den)
              /\ ret.gain.den.num > 0

\* a buffer of nonzero energy whose coefficients all have the same magnitude:
\* none exceeds the threshold and the output is zero throughout
C27_Witness ==
    /\ op = "reduce_noise_wavelet" /\ ret.outcome = "ok"
    /\ SeqSum(Squares(audio)) > 0
    /\ NoneAbove(cwt(audio, NumScales))
    /\ \E a \in 1..NumScales : \E i \in 1..Len(audio) :
          cwt(audio, NumScales)[a][i] # 0
    /\ ret.out = Const(Len(audio), 0)

\* ------------------------------------------------- the two silence detectors

MaxRunFiles == 2                \* a repeated run finds at most MaxRunFiles files

\* the files of the repeated runs: two that can succeed, one that cannot be
\* read and one whose output cannot be written
RunFiles == {f \in Files : f.name \in {"a.wav", "c.wav", "d.mp3", "e.mp3"}}

RunFileLists ==
    {l \in FileListsUpTo(MaxRunFiles) : Range(l) \subseteq RunFiles}

\* the methods of the repeated runs; reduce_noise_standard raises on c.wav
RunMethods == {"standard", "wavelet"}

\* run_experiment called any number of times on one runner
RunsNext ==
    \/ \E files \in RunFileLists, method \in RunMethods : run_experiment(files, method)
    \/ run_experiment_file
    \/ run_experiment_return

RunsSpec == BatchInit /\ [][RunsNext]_vars

append_ok(records, attempt) ==
    IF attempt.outcome = "ok" THEN Append(records, attempt.result) ELSE records

\* the records of the first n files of a run: one for each file whose
\* processing, saving and analysis all succeeded, in the order of the files
RECURSIVE run_records(_, _, _, _)
run_records(files, method, stds, n) ==
    IF n = 0 THEN <<>>
    ELSE append_ok(run_records(files, method, stds, n - 1),
                   try_body(files[n], method, stds))

\* C29: in and after a run_experiment call that found a file, self.results
\* is the list of the records of the files of this call that went through
\* processing, saving and analysis, in order, whatever the list held before
\* the call; the call returns None exactly when it found no file or that
\* list is empty, and otherwise the table whose rows are the records.
C29_RunResults ==
    batch.entry = "run_experiment" =>
        /\ batch.files # <<>> =>
              batch.results = run_records(batch.files, batch.methods[1], standards,
                                          batch.file_idx - 1)
        /\ batch.mode = "returned" =>
              /\ batch.returned \in {"None", "results_df"}
              /\ batch.returned = "None" <=>
                    (batch.files = <<>> \/ batch.results = <<>>)
              /\ batch.returned = "results_df" => batch.table = batch.results
              /\ batch.files # <<>> => batch.file_idx = Len(batch.files) + 1

\* a second run that returns a table: the list held a record of another file
\* before the call, one file of this run failed and one succeeded
C29_Witness ==
    /\ batch.entry = "run_experiment" /\ batch.mode = "returned"
    /\ batch.returned = "results_df"
    /\ Len(batch.results) = 1
    /\ Len(batch.files) = 2
    /\ batch.log # <<>>
    /\ \E i \in 1..Len(batch.previous) :
          batch.previous[i].filename # batch.results[1].filename

\* ------------------------------------------------- analyze_audio_pair

PairRates == {100, 200}

\* the original file of a pair: the buffer the caller holds, at rate sr
pair_file(original_audio, sr) ==
    [name |-> "original.wav", audio |-> original_audio, sr |-> sr,
     readable |-> TRUE, writable |-> TRUE]

\* the processed buffers of a pair: silent or loud samples, of any length up
\* to MaxLen
ProcessedBuffers ==
    {b \in SeqsUpTo(MaxLen) : \A i \in 1..Len(b) : b[i] # 5}

\* the caller holds the original buffer; ret is the denoiser result that
\* sf.write stored in the processed file
PairInit ==
    /\ sample_rate = 44100
    /\ standards = DefaultStandards
    /\ other_standards = DefaultStandards
    /\ audio \in SeqsUpTo(MaxLen)
    /\ op = "init"
    /\ args = NoArgs
    /\ ret \in {[Blank EXCEPT !.outcome = "ok", !.out = b] :
                   b \in ProcessedBuffers}
    /\ eval_ret = EvalBlank
    /\ prev = NoCall
    /\ workers = <<>>
    /\ batch = NoBatch

\* analyze_audio_pair(original_file, processed_file) on the caller's buffer and
\* the processed buffer read back from its file
CallAnalyzePair(sr) ==
    /\ op' = "analyze_audio_pair"
    /\ args' = [NoArgs EXCEPT !.sr = sr]
    /\ batch' = [NoBatch EXCEPT
          !.entry = "analyze_audio_pair",
          !.last = try_analysed(
                      [NoAttempt EXCEPT !.file = pair_file(audio, sr), !.sr = sr,
                                        !.processed = ret],
                      analyze_audio_pair(pair_file(audio, sr), sf_write(ret),
                                         standards))]
    /\ UNCHANGED <<sample_rate, standards, audio, ret, eval_ret,
                   other_standards, prev, workers>>

PairNext == \E sr \in PairRates : CallAnalyzePair(sr)

PairSpec == PairInit /\ [][PairNext]_vars

\* a metric whose value is 0
IsZero(m) ==
    CASE m.kind = "const" -> m.val = 0
      [] m.kind = "frac" -> m.num = 0
      [] m.kind = "sqrt" -> m.num = 0
      [] OTHER -> FALSE

\* one percentage improvement: 0 when the original metric is 0, otherwise
\* the percentage of the two metrics, with a divisor that is positive
GuardedPercent(improvement, processed, original) ==
    /\ IsZero(original) => improvement = NoImprovement
    /\ ~IsZero(original) =>
          /\ improvement = [kind |-> "percent", processed |-> processed,
                            original |-> original]
          /\ positive(original)

\* C30: in the record analyze_audio_pair returns, the rms, peak and cv
\* improvements are 0 when the original's metric is 0 and otherwise the
\* percentage (processed - original) / original * 100 with a positive
\* divisor; snr_improvement is the difference of the two snr values. The
\* metrics are those of the two buffers cut to the shorter length.
C30_Improvements ==
    (op = "analyze_audio_pair" /\ batch.last.outcome = "ok") =>
        LET r == batch.last.result
            processed_audio == sf_write(batch.last.processed)
            n == Min(Len(audio), Len(processed_audio))
        IN  /\ r.original =
                  evaluate_audio(SubSeq(audio, 1, n), args.sr, standards).metrics
            /\ r.processed =
                  evaluate_audio(SubSeq(processed_audio, 1, n),
                                 args.sr, standards).metrics
            /\ GuardedPercent(r.rms_improvement, r.processed.rms, r.original.rms)
            /\ GuardedPercent(r.peak_improvement, r.processed.peak, r.original.peak)
            /\ GuardedPercent(r.cv_improvement, r.processed.cv, r.original.cv)
            /\ r.snr_improvement =
                  [kind |-> "difference", processed |-> r.processed.snr,
                   original |-> r.original.snr]

\* an all-zero original and a processed buffer that is not zero: the rms and
\* peak improvements are 0, the cv improvement is a percentage of the 1.0 that
\* calculate_cv gives the original
C30_Witness ==
    /\ op = "analyze_audio_pair" /\ batch.last.outcome = "ok"
    /\ AllZero(audio)
    /\ ~AllZero(batch.last.processed.out)
    /\ batch.last.result.rms_improvement.kind = "zero"
    /\ batch.last.result.peak_improvement.kind = "zero"
    /\ batch.last.result.cv_improvement.kind = "percent"
    /\ batch.last.result.cv_improvement.original = Const1000(SentinelCv)
    /\ positive(batch.last.result.processed.rms)

====
